---- MODULE Spec2Model ----
(***************************************************************************)
(* Verification model of the PlotLot core: the county query translator and *)
(* paginated bulk search (retrieval/bulk_search.py), the safe filter       *)
(* parser (retrieval/bulk_search.py), the hybrid search engine             *)
(* (retrieval/search.py) and the density calculator                        *)
(* (pipeline/calculator.py).                                               *)
(*                                                                         *)
(* Python strings that the code inspects character by character (lower,    *)
(* strip, replace, regular expressions, ILIKE) are tuples of one-character *)
(* strings.  Strings that the code only copies are TLA+ strings.           *)
(* An optional value is None == <<>> or Some(v) == <<v>>.                  *)
(***************************************************************************)
EXTENDS Integers, Sequences, FiniteSets, TLC

VARIABLES
    w_pc, w_params, w_out,
    b_pc, b_params, b_fm, b_max_results, all_records, offset, batch_size,
    b_requests, b_pages, b_failed, b_result,
    c_pc, c_in, c_out,
    s_pc, s_store, s_req, s_embed, s_embedding, s_query, s_result,
    f_pc, f_records, f_expression, f_result,
    n_pc, n_attrs, n_fm, n_record,
    p_pc, p_county, p_found, p_coords, p_queried, p_answers, p_zoning,
    _sessions, now, t_pc, t_sid, t_op,
    memory, h_tokens, h_dataset, h_req, loop_task,
    _breakers, l_now, l_keys, l_calls, l_log, l_streak

w_vars == <<w_pc, w_params, w_out>>
b_vars == <<b_pc, b_params, b_fm, b_max_results, all_records, offset,
            batch_size, b_requests, b_pages, b_failed, b_result>>

c_vars == <<c_pc, c_in, c_out>>

s_vars == <<s_pc, s_store, s_req, s_embed, s_embedding, s_query, s_result>>

f_vars == <<f_pc, f_records, f_expression, f_result>>

n_vars == <<n_pc, n_attrs, n_fm, n_record>>

p_vars == <<p_pc, p_county, p_found, p_coords, p_queried, p_answers, p_zoning>>

t_vars == <<_sessions, now, t_pc, t_sid, t_op>>

h_vars == <<memory, h_tokens, h_dataset, h_req, loop_task>>

l_vars == <<_breakers, l_now, l_keys, l_calls, l_log, l_streak>>

\* ------------------------------------------------------------------------
\* Python values
\* ------------------------------------------------------------------------

None == <<>>

Some(v) == <<v>>

IsNone(x) == x = <<>>

Val(x) == x[1]

Min2(a, b) == IF a <= b THEN a ELSE b

Max2(a, b) == IF a >= b THEN a ELSE b

\* ------------------------------------------------------------------------
\* Python str operations on tuples of characters
\* ------------------------------------------------------------------------

\* Upper-case letter to lower-case letter.
ToLowerTable ==
    ("A" :> "a") @@ ("B" :> "b") @@ ("C" :> "c") @@ ("D" :> "d") @@ ("E" :> "e") @@ ("F" :> "f") @@
    ("G" :> "g") @@ ("H" :> "h") @@ ("I" :> "i") @@ ("J" :> "j") @@ ("K" :> "k") @@ ("L" :> "l") @@
    ("M" :> "m") @@ ("N" :> "n") @@ ("O" :> "o") @@ ("P" :> "p") @@ ("Q" :> "q") @@ ("R" :> "r") @@
    ("S" :> "s") @@ ("T" :> "t") @@ ("U" :> "u") @@ ("V" :> "v") @@ ("W" :> "w") @@ ("X" :> "x") @@
    ("Y" :> "y") @@ ("Z" :> "z")

\* Lower-case letter to upper-case letter.
ToUpperTable ==
    ("a" :> "A") @@ ("b" :> "B") @@ ("c" :> "C") @@ ("d" :> "D") @@ ("e" :> "E") @@ ("f" :> "F") @@
    ("g" :> "G") @@ ("h" :> "H") @@ ("i" :> "I") @@ ("j" :> "J") @@ ("k" :> "K") @@ ("l" :> "L") @@
    ("m" :> "M") @@ ("n" :> "N") @@ ("o" :> "O") @@ ("p" :> "P") @@ ("q" :> "Q") @@ ("r" :> "R") @@
    ("s" :> "S") @@ ("t" :> "T") @@ ("u" :> "U") @@ ("v" :> "V") @@ ("w" :> "W") @@ ("x" :> "X") @@
    ("y" :> "Y") @@ ("z" :> "Z")

LowerChar(c) == IF c \in DOMAIN ToLowerTable THEN ToLowerTable[c] ELSE c

UpperChar(c) == IF c \in DOMAIN ToUpperTable THEN ToUpperTable[c] ELSE c

\* str.lower()
Lower(s) == [i \in 1..Len(s) |-> LowerChar(s[i])]

\* str.upper()
Upper(s) == [i \in 1..Len(s) |-> UpperChar(s[i])]

IsSpace(c) == c \in {" ", "\t", "\n"}

RECURSIVE LStrip(_)
LStrip(s) ==
    IF s # <<>> /\ IsSpace(Head(s)) THEN LStrip(Tail(s)) ELSE s

RECURSIVE RStrip(_)
RStrip(s) ==
    IF s # <<>> /\ IsSpace(s[Len(s)]) THEN RStrip(SubSeq(s, 1, Len(s) - 1)) ELSE s

\* str.strip()
Strip(s) == RStrip(LStrip(s))

\* str.replace(a, b) for one-character a and b
Replace(s, a, b) == [i \in 1..Len(s) |-> IF s[i] = a THEN b ELSE s[i]]

\* ------------------------------------------------------------------------
\* County field maps (bulk_search.py)
\* ------------------------------------------------------------------------

MDC_FIELDS ==
    [county_name |-> <<"M","i","a","m","i","-","D","a","d","e">>,
     url |-> "MDC_PROPERTY_URL",
     land_use_code |-> "DOR_CODE_CUR", owner_name |-> "TRUE_OWNER1",
     sale_date |-> "DOS_1", sale_date_format |-> "string_mmddyyyy",
     sale_price |-> "PRICE_1", lot_size |-> "LOT_SIZE", lot_size_unit |-> "sqft",
     address |-> "TRUE_SITE_ADDR", city |-> "TRUE_SITE_CITY",
     assessed_value |-> "ASSESSED_VAL_CUR", year_built |-> "YEAR_BUILT",
     folio |-> "FOLIO", needs_order_by |-> FALSE, order_by_field |-> ""]

BROWARD_FIELDS ==
    [county_name |-> <<"B","r","o","w","a","r","d">>,
     url |-> "BROWARD_PROPERTY_URL",
     land_use_code |-> "USE_CODE", owner_name |-> "NAME_LINE_1",
     sale_date |-> "", sale_date_format |-> "none",
     sale_price |-> "", lot_size |-> "", lot_size_unit |-> "none",
     address |-> "SITUS_STREET_NUMBER", city |-> "SITUS_CITY",
     assessed_value |-> "JUST_BUILDING_VALUE", year_built |-> "BLDG_YEAR_BUILT",
     folio |-> "FOLIO_NUMBER", needs_order_by |-> TRUE,
     order_by_field |-> "FOLIO_NUMBER"]

PBC_FIELDS ==
    [county_name |-> <<"P","a","l","m"," ","B","e","a","c","h">>,
     url |-> "PBC_PROPERTY_URL",
     land_use_code |-> "PROPERTY_USE", owner_name |-> "OWNER_NAME1",
     sale_date |-> "SALE_DATE", sale_date_format |-> "epoch_ms",
     sale_price |-> "PRICE", lot_size |-> "ACRES", lot_size_unit |-> "acres",
     address |-> "SITE_ADDR_STR", city |-> "MUNICIPALITY",
     assessed_value |-> "ASSESSED_VAL", year_built |-> "YRBLT",
     folio |-> "PARCEL_NUMBER", needs_order_by |-> FALSE, order_by_field |-> ""]

\* The value of a failed dict lookup / an unresolved field map.
NoFieldMap ==
    [county_name |-> <<>>, url |-> "", land_use_code |-> "", owner_name |-> "",
     sale_date |-> "", sale_date_format |-> "none", sale_price |-> "",
     lot_size |-> "", lot_size_unit |-> "none", address |-> "", city |-> "",
     assessed_value |-> "", year_built |-> "", folio |-> "",
     needs_order_by |-> FALSE, order_by_field |-> ""]

_COUNTY_MAP ==
       (<<"m","i","a","m","i","-","d","a","d","e">> :> MDC_FIELDS)
    @@ (<<"m","i","a","m","i"," ","d","a","d","e">> :> MDC_FIELDS)
    @@ (<<"b","r","o","w","a","r","d">> :> BROWARD_FIELDS)
    @@ (<<"p","a","l","m"," ","b","e","a","c","h">> :> PBC_FIELDS)

BROWARD_CITY_CODES ==
       (<<"c","o","c","o","n","u","t"," ","c","r","e","e","k">> :> <<"C","K">>)
    @@ (<<"c","o","o","p","e","r"," ","c","i","t","y">> :> <<"C","Y">>)
    @@ (<<"c","o","r","a","l"," ","s","p","r","i","n","g","s">> :> <<"C","S">>)
    @@ (<<"d","a","n","i","a"," ","b","e","a","c","h">> :> <<"D","N">>)
    @@ (<<"d","a","n","i","a">> :> <<"D","N">>)
    @@ (<<"d","a","v","i","e">> :> <<"D","V">>)
    @@ (<<"d","e","e","r","f","i","e","l","d"," ","b","e","a","c","h">> :> <<"D","B">>)
    @@ (<<"f","o","r","t"," ","l","a","u","d","e","r","d","a","l","e">> :> <<"F","L">>)
    @@ (<<"h","a","l","l","a","n","d","a","l","e"," ","b","e","a","c","h">> :> <<"H","A">>)
    @@ (<<"h","a","l","l","a","n","d","a","l","e">> :> <<"H","A">>)
    @@ (<<"h","i","l","l","s","b","o","r","o"," ","b","e","a","c","h">> :> <<"H","B">>)
    @@ (<<"h","o","l","l","y","w","o","o","d">> :> <<"H","W">>)
    @@ (<<"l","a","u","d","e","r","d","a","l","e"," ","l","a","k","e","s">> :> <<"L","P">>)
    @@ (<<"l","a","u","d","e","r","d","a","l","e","-","b","y","-","t","h","e","-","s","e","a">> :> <<"L","S">>)
    @@ (<<"l","a","u","d","e","r","h","i","l","l">> :> <<"L","L">>)
    @@ (<<"l","a","z","y"," ","l","a","k","e">> :> <<"L","Z">>)
    @@ (<<"l","i","g","h","t","h","o","u","s","e"," ","p","o","i","n","t">> :> <<"L","H">>)
    @@ (<<"m","a","r","g","a","t","e">> :> <<"M","G">>)
    @@ (<<"m","i","r","a","m","a","r">> :> <<"M","M">>)
    @@ (<<"n","o","r","t","h"," ","l","a","u","d","e","r","d","a","l","e">> :> <<"N","L">>)
    @@ (<<"o","a","k","l","a","n","d"," ","p","a","r","k">> :> <<"O","P">>)
    @@ (<<"p","a","r","k","l","a","n","d">> :> <<"P","K">>)
    @@ (<<"p","e","m","b","r","o","k","e"," ","p","a","r","k">> :> <<"P","I">>)
    @@ (<<"p","e","m","b","r","o","k","e"," ","p","i","n","e","s">> :> <<"P","B">>)
    @@ (<<"p","l","a","n","t","a","t","i","o","n">> :> <<"P","L">>)
    @@ (<<"p","o","m","p","a","n","o"," ","b","e","a","c","h">> :> <<"P","A">>)
    @@ (<<"s","e","a"," ","r","a","n","c","h"," ","l","a","k","e","s">> :> <<"S","L">>)
    @@ (<<"s","o","u","t","h","w","e","s","t"," ","r","a","n","c","h","e","s">> :> <<"S","W">>)
    @@ (<<"s","u","n","r","i","s","e">> :> <<"S","U">>)
    @@ (<<"t","a","m","a","r","a","c">> :> <<"T","M">>)
    @@ (<<"w","e","s","t"," ","p","a","r","k">> :> <<"W","P">>)
    @@ (<<"w","e","s","t","o","n">> :> <<"W","M">>)
    @@ (<<"w","i","l","t","o","n"," ","m","a","n","o","r","s">> :> <<"W","S">>)

LAND_USE_CODES ==
       (<<"m","i","a","m","i","-","d","a","d","e">> :> [
          vacant_residential |-> <<"0000">>,
          vacant_commercial |-> <<"0100">>,
          single_family |-> <<"0101", "0102">>,
          multifamily |-> <<"0104", "0800", "0801", "0802", "0803", "0804">>,
          commercial |-> <<"1100", "1200", "1300", "1400", "1500", "1600", "1700">>,
          industrial |-> <<"4100", "4200", "4800", "4900">>,
          agricultural |-> <<"5000", "5100", "5400", "5500", "5600", "5700", "5800", "5900", "6000">>])
    @@ (<<"b","r","o","w","a","r","d">> :> [
          vacant_residential |-> <<"00">>,
          vacant_commercial |-> <<"10">>,
          single_family |-> <<"01">>,
          multifamily |-> <<"03", "04", "08">>,
          commercial |-> <<"11", "12", "13", "14", "15", "16", "17">>,
          industrial |-> <<"41", "42", "48", "49">>,
          agricultural |-> <<"50", "51", "54", "55", "56", "57", "58", "59", "60">>])
    @@ (<<"p","a","l","m"," ","b","e","a","c","h">> :> [
          vacant_residential |-> <<"00">>,
          vacant_commercial |-> <<"10">>,
          single_family |-> <<"01", "02">>,
          multifamily |-> <<"03", "04", "08">>,
          commercial |-> <<"11", "12", "13", "14", "15", "16", "17">>,
          industrial |-> <<"41", "42", "48", "49">>,
          agricultural |-> <<"50", "51", "54", "55", "56", "57", "58", "59", "60">>])

\* ------------------------------------------------------------------------
\* WHERE clause builder (bulk_search.py)
\* ------------------------------------------------------------------------

SQFT_PER_ACRE == 43560

\* ValueError raised by _get_field_map; the message is kept in its pieces.
UnsupportedCounty(county) ==
    [kind |-> "ValueError",
     prefix |-> "Unsupported county: ",
     county |-> county,
     supported |-> << <<"M","i","a","m","i","-","D","a","d","e">>,
                      <<"B","r","o","w","a","r","d">>,
                      <<"P","a","l","m"," ","B","e","a","c","h">> >>]

\* _get_field_map without the lower(): a case-sensitive lookup.
_get_field_map_case_sensitive(county) ==
    LET key == Strip(county)
    IN  IF key \in DOMAIN _COUNTY_MAP
        THEN [ok |-> TRUE, fm |-> _COUNTY_MAP[key], error |-> UnsupportedCounty(<<>>)]
        ELSE [ok |-> FALSE, fm |-> NoFieldMap, error |-> UnsupportedCounty(county)]

\* _get_field_map: [ok, fm, error]
_get_field_map(county) ==
    LET key == Strip(Lower(county))
    IN  IF key \in DOMAIN _COUNTY_MAP
        THEN [ok |-> TRUE, fm |-> _COUNTY_MAP[key], error |-> UnsupportedCounty(<<>>)]
        ELSE [ok |-> FALSE, fm |-> NoFieldMap, error |-> UnsupportedCounty(county)]

\* One emitted condition.  fmt tells how the operand is rendered:
\*   "quoted"  field='codes[1]'          "in"      field IN ('c1','c2',...)
\*   "text"    field='chars'             "like"    field LIKE '%chars%'
\*   "number"  field<op>num              "fixed4"  field<op>num/10000 (.4f)
\*   "yyyymmdd" field<'num'              "epoch_ms" field<num*1000
Cond(field, op, fmt, codes, chars, num) ==
    [field |-> field, op |-> op, fmt |-> fmt, codes |-> codes, chars |-> chars,
     num |-> num]

\* Key used to index LAND_USE_CODES (bulk_search.py lines 258-265).
CountyKey(fm) ==
    LET k == Replace(Replace(Lower(fm.county_name), "-", " "), " ", "-")
    IN  IF k = <<"m","i","a","m","i"," ","d","a","d","e">>
        THEN <<"m","i","a","m","i","-","d","a","d","e">>
        ELSE IF k = <<"p","a","l","m"," ","b","e","a","c","h">>
        THEN <<"p","a","l","m"," ","b","e","a","c","h">>
        ELSE k

LandUseConditions(params, fm) ==
    IF params.land_use_type = "" THEN <<>>
    ELSE
      LET county_key == CountyKey(fm)
          county_codes == IF county_key \in DOMAIN LAND_USE_CODES
                          THEN LAND_USE_CODES[county_key] ELSE [x \in {} |-> <<>>]
          codes == IF params.land_use_type \in DOMAIN county_codes
                   THEN county_codes[params.land_use_type] ELSE <<>>
      IN  IF codes = <<>> THEN <<>>
          ELSE IF Len(codes) = 1
          THEN << Cond(fm.land_use_code, "=", "quoted", codes, <<>>, 0) >>
          ELSE << Cond(fm.land_use_code, "IN", "in", codes, <<>>, 0) >>

CityConditions(params, fm) ==
    IF params.city = <<>> THEN <<>>
    ELSE IF fm.county_name = <<"B","r","o","w","a","r","d">>
    THEN LET key == Strip(Lower(params.city))
             city_code == IF key \in DOMAIN BROWARD_CITY_CODES
                          THEN BROWARD_CITY_CODES[key] ELSE <<>>
         IN  IF city_code # <<>>
             THEN << Cond(fm.city, "=", "text", <<>>, city_code, 0) >>
             ELSE << Cond(fm.city, "=", "text", <<>>, Strip(Upper(params.city)), 0) >>
    ELSE << Cond(fm.city, "=", "text", <<>>, Strip(Upper(params.city)), 0) >>

\* Days since 1970-01-01 of a proleptic Gregorian date (datetime.timestamp
\* of a UTC midnight, divided by 86400).
DaysFromCivil(y, m, d) ==
    LET yy  == IF m <= 2 THEN y - 1 ELSE y
        era == yy \div 400
        yoe == yy - era * 400
        mp  == IF m > 2 THEN m - 3 ELSE m + 9
        doy == (153 * mp + 2) \div 5 + d - 1
        doe == yoe * 365 + yoe \div 4 - yoe \div 100 + doy
    IN  era * 146097 + doe - 719468

SaleDateConditions(params, fm) ==
    IF IsNone(params.max_sale_date) \/ fm.sale_date = "" THEN <<>>
    ELSE LET dt == Val(params.max_sale_date)
         IN  IF fm.sale_date_format = "string_mmddyyyy"
             THEN << Cond(fm.sale_date, "<", "yyyymmdd", <<>>, <<>>,
                          dt.y * 10000 + dt.m * 100 + dt.d) >>
             ELSE IF fm.sale_date_format = "epoch_ms"
             THEN << Cond(fm.sale_date, "<", "epoch_ms", <<>>, <<>>,
                          DaysFromCivil(dt.y, dt.m, dt.d) * 86400) >>
             ELSE <<>>

\* f"{x / 43560:.4f}" as an integer number of ten-thousandths (round half up).
Acres4(sqft) == (sqft * 10000 * 2 + SQFT_PER_ACRE) \div (2 * SQFT_PER_ACRE)

LotSizeConditions(params, fm) ==
    LET one(bound, op) ==
            IF IsNone(bound) \/ fm.lot_size = "" THEN <<>>
            ELSE IF fm.lot_size_unit = "acres"
            THEN << Cond(fm.lot_size, op, "fixed4", <<>>, <<>>, Acres4(Val(bound))) >>
            ELSE << Cond(fm.lot_size, op, "number", <<>>, <<>>, Val(bound)) >>
    IN  one(params.min_lot_size_sqft, ">=") \o one(params.max_lot_size_sqft, "<=")

RangeCondition(bound, field, op) ==
    IF IsNone(bound) \/ field = "" THEN <<>>
    ELSE << Cond(field, op, "number", <<>>, <<>>, Val(bound)) >>

OwnerConditions(params, fm) ==
    IF params.owner_name_contains = <<>> \/ fm.owner_name = "" THEN <<>>
    ELSE << Cond(fm.owner_name, "LIKE", "like", <<>>,
                 Strip(Upper(params.owner_name_contains)), 0) >>

Tautology == << Cond("1", "=", "number", <<>>, <<>>, 1) >>

\* build_where_clause: [ok, where, fm, error]; where is the list of
\* conditions joined by " AND ", or the tautology 1=1.
build_where_clause(params) ==
    LET r == _get_field_map(params.county)
        fm == r.fm
        conditions ==
            LandUseConditions(params, fm)
            \o CityConditions(params, fm)
            \o SaleDateConditions(params, fm)
            \o LotSizeConditions(params, fm)
            \o RangeCondition(params.min_sale_price, fm.sale_price, ">=")
            \o RangeCondition(params.max_sale_price, fm.sale_price, "<=")
            \o RangeCondition(params.min_assessed_value, fm.assessed_value, ">=")
            \o RangeCondition(params.max_assessed_value, fm.assessed_value, "<=")
            \o RangeCondition(params.year_built_before, fm.year_built, "<")
            \o RangeCondition(params.year_built_after, fm.year_built, ">")
            \o OwnerConditions(params, fm)
    IN  IF ~r.ok
        THEN [ok |-> FALSE, where |-> <<>>, fm |-> NoFieldMap, error |-> r.error]
        ELSE [ok |-> TRUE,
              where |-> IF conditions # <<>> THEN conditions ELSE Tautology,
              fm |-> fm, error |-> r.error]

\* ------------------------------------------------------------------------
\* Inputs of the WHERE clause builder
\* ------------------------------------------------------------------------

CountyInputs ==
    { <<"M","i","a","m","i","-","D","a","d","e">>,
      <<"M","I","A","M","I","-","D","A","D","E">>,
      <<"m","i","a","m","i"," ","d","a","d","e">>,
      <<"M","i","a","m","i","D","a","d","e">>,
      <<"B","r","o","w","a","r","d">>,
      <<" ","b","r","o","w","a","r","d"," ">>,
      <<"P","a","l","m"," ","B","e","a","c","h">>,
      <<"P","A","L","M"," ","B","E","A","C","H">>,
      <<"P","a","l","m","-","B","e","a","c","h">>,
      <<"P","a","l","m","B","e","a","c","h">>,
      <<"M","o","n","r","o","e">>,
      <<>> }

LandUseCategories ==
    {"vacant_residential", "vacant_commercial", "single_family", "multifamily",
     "commercial", "industrial", "agricultural"}

LandUseInputs == LandUseCategories \cup {"", "residential"}

CityInputs ==
    { <<>>,
      <<"M","i","r","a","m","a","r">>,
      <<"F","L">>,
      <<"M","i","a","m","i"," ","G","a","r","d","e","n","s">> }

DateInputs == {None, Some([y |-> 2006, m |-> 1, d |-> 1])}

\* Packages of numeric range bounds (absent, or one representative value).
RangeInputs ==
    { [min_lot |-> None, max_lot |-> None, min_price |-> None, max_price |-> None,
       min_av |-> None, max_av |-> None, yb_before |-> None, yb_after |-> None],
      [min_lot |-> Some(43560), max_lot |-> None, min_price |-> Some(0),
       max_price |-> None, min_av |-> Some(50000), max_av |-> Some(200000),
       yb_before |-> Some(1), yb_after |-> None],
      [min_lot |-> None, max_lot |-> Some(21780), min_price |-> None,
       max_price |-> Some(100000), min_av |-> None, max_av |-> None,
       yb_before |-> None, yb_after |-> Some(1990)] }

OwnerInputs == { <<>>, <<"j","o","h","n"," ","d","o","e">> }

DefaultMaxResults == 500

PropertySearchParams(county, land_use, city, date, rng, owner, max_results) ==
    [county |-> county, land_use_type |-> land_use, city |-> city,
     max_sale_date |-> date,
     min_lot_size_sqft |-> rng.min_lot, max_lot_size_sqft |-> rng.max_lot,
     min_sale_price |-> rng.min_price, max_sale_price |-> rng.max_price,
     min_assessed_value |-> rng.min_av, max_assessed_value |-> rng.max_av,
     year_built_before |-> rng.yb_before, year_built_after |-> rng.yb_after,
     owner_name_contains |-> owner, max_results |-> max_results]

NoRanges == CHOOSE r \in RangeInputs : \A f \in DOMAIN r : r[f] = None

WhereInputs ==
    { PropertySearchParams(c, l, ci, dt, rg, ow, DefaultMaxResults) :
        c \in CountyInputs, l \in LandUseInputs, ci \in CityInputs,
        dt \in DateInputs, rg \in RangeInputs, ow \in OwnerInputs }

NoParams ==
    PropertySearchParams(<<>>, "", <<>>, None, NoRanges, <<>>, 0)

NoWhereResult ==
    [ok |-> FALSE, where |-> <<>>, fm |-> NoFieldMap, error |-> UnsupportedCounty(<<>>)]

\* ------------------------------------------------------------------------
\* Paginated bulk search (bulk_search.py, bulk_property_search)
\* ------------------------------------------------------------------------

HardCap == 2000

PageSize == 1000

\* Largest number of rows a server page may exceed the requested count by.
ExtraRows == 2

MaxResultsInputs == {0, 1, 2, 500, 999, 1000, 1001, 1500, 2000, 2001, 3000}

BulkCountyInputs ==
    { <<"M","i","a","m","i","-","D","a","d","e">>,
      <<"B","r","o","w","a","r","d">>,
      <<"P","a","l","m"," ","B","e","a","c","h">>,
      <<"M","o","n","r","o","e">> }

BulkInputs ==
    { PropertySearchParams(c, l, <<>>, None, NoRanges, <<>>, mr) :
        c \in BulkCountyInputs, l \in {"", "vacant_residential"},
        mr \in MaxResultsInputs }

\* Feature number row of the response to page request number page.
ServerFeature(page, row) == [page |-> page, row |-> row]

\* _normalize_record, restricted to the identity of the record (folio) and
\* the county stamped on it.
NormalizeFeature(feat, fm) ==
    [folio |-> <<feat.page, feat.row>>, county |-> fm.county_name]

\* The query sent for one page: resultOffset, resultRecordCount, orderByFields.
PageRequest(fm, where, off, count) ==
    [url |-> fm.url, where |-> where, resultOffset |-> off,
     resultRecordCount |-> count,
     orderByFields |-> IF fm.needs_order_by /\ fm.order_by_field # ""
                       THEN fm.order_by_field ELSE ""]

\* The page loop without its len(all_records) >= max_results guard.
AppendPage_uncapped(records, page, n, fm, max_results) ==
    records \o [i \in 1..n |-> NormalizeFeature(ServerFeature(page, i), fm)]

\* for feat in features: if len(all_records) >= max_results: break; append
AppendPage(records, page, n, fm, max_results) ==
    LET take == Min2(n, Max2(max_results - Len(records), 0))
    IN  records \o [i \in 1..take |-> NormalizeFeature(ServerFeature(page, i), fm)]

\* Row counts a server may answer a request for count rows with.
RowChoices(count) ==
    {n \in {0, 1, count - 1, count} : n >= 0} \cup (count + 1 .. count + ExtraRows)

\* Call of bulk_property_search up to its first await (or return / raise).
BulkCall ==
    /\ b_pc = "start"
    /\ LET r == build_where_clause(b_params)
           max_results == Min2(b_params.max_results, HardCap)
       IN  IF ~r.ok
           THEN /\ b_pc' = "raised"
                /\ UNCHANGED <<b_fm, b_max_results, all_records, offset,
                               batch_size, b_requests, b_result>>
           ELSE /\ b_fm' = r.fm
                /\ b_max_results' = max_results
                /\ all_records' = <<>>
                /\ offset' = 0
                /\ IF 0 < max_results
                   THEN /\ batch_size' = Min2(PageSize, max_results)
                        /\ b_requests' = Append(b_requests,
                              PageRequest(r.fm, r.where, 0, Min2(PageSize, max_results)))
                        /\ b_pc' = "await"
                        /\ b_result' = b_result
                   ELSE /\ b_pc' = "done"
                        /\ b_result' = <<>>
                        /\ UNCHANGED <<batch_size, b_requests>>
    /\ UNCHANGED <<b_params, b_pages, b_failed>>

\* The page loop without its end-of-data test len(features) < batch_size.
PageReturns_ignores_short_page(n) ==
    /\ b_pc = "await"
    /\ LET page == Len(b_pages) + 1
           recs == IF n = 0 THEN all_records
                   ELSE AppendPage(all_records, page, n, b_fm, b_max_results)
           stop == \/ n = 0
                   \/ Len(recs) >= b_max_results
           where == b_requests[Len(b_requests)].where
       IN  /\ b_pages' = Append(b_pages, n)
           /\ all_records' = recs
           /\ IF stop
              THEN /\ b_pc' = "done"
                   /\ b_result' = recs
                   /\ UNCHANGED <<offset, batch_size, b_requests>>
              ELSE /\ offset' = offset + n
                   /\ batch_size' = Min2(PageSize, b_max_results - Len(recs))
                   /\ b_requests' = Append(b_requests,
                         PageRequest(b_fm, where, offset + n,
                                     Min2(PageSize, b_max_results - Len(recs))))
                   /\ b_pc' = "await"
                   /\ b_result' = b_result
    /\ UNCHANGED <<b_params, b_fm, b_max_results, b_failed>>

\* A page loop that never advances its offset.
PageReturns_keeps_offset(n) ==
    /\ b_pc = "await"
    /\ LET page == Len(b_pages) + 1
           recs == IF n = 0 THEN all_records
                   ELSE AppendPage(all_records, page, n, b_fm, b_max_results)
           stop == \/ n = 0
                   \/ Len(recs) >= b_max_results
                   \/ n < batch_size
           where == b_requests[Len(b_requests)].where
       IN  /\ b_pages' = Append(b_pages, n)
           /\ all_records' = recs
           /\ IF stop
              THEN /\ b_pc' = "done"
                   /\ b_result' = recs
                   /\ UNCHANGED <<offset, batch_size, b_requests>>
              ELSE /\ offset' = offset
                   /\ batch_size' = Min2(PageSize, b_max_results - Len(recs))
                   /\ b_requests' = Append(b_requests,
                         PageRequest(b_fm, where, offset,
                                     Min2(PageSize, b_max_results - Len(recs))))
                   /\ b_pc' = "await"
                   /\ b_result' = b_result
    /\ UNCHANGED <<b_params, b_fm, b_max_results, b_failed>>

\* The awaited page query returns n features; the loop body runs up to the
\* next await or to the return.
PageReturns(n) ==
    /\ b_pc = "await"
    /\ LET page == Len(b_pages) + 1
           recs == IF n = 0 THEN all_records
                   ELSE AppendPage(all_records, page, n, b_fm, b_max_results)
           stop == \/ n = 0
                   \/ Len(recs) >= b_max_results
                   \/ n < batch_size
           where == b_requests[Len(b_requests)].where
       IN  /\ b_pages' = Append(b_pages, n)
           /\ all_records' = recs
           /\ IF stop
              THEN /\ b_pc' = "done"
                   /\ b_result' = recs
                   /\ UNCHANGED <<offset, batch_size, b_requests>>
              ELSE /\ offset' = offset + n
                   /\ batch_size' = Min2(PageSize, b_max_results - Len(recs))
                   /\ b_requests' = Append(b_requests,
                         PageRequest(b_fm, where, offset + n,
                                     Min2(PageSize, b_max_results - Len(recs))))
                   /\ b_pc' = "await"
                   /\ b_result' = b_result
    /\ UNCHANGED <<b_params, b_fm, b_max_results, b_failed>>

\* A page failure that discards what was accumulated.
PageFails_discards ==
    /\ b_pc = "await"
    /\ b_failed' = Len(b_pages) + 1
    /\ b_pc' = "done"
    /\ b_result' = <<>>
    /\ UNCHANGED <<b_params, b_fm, b_max_results, all_records, offset,
                   batch_size, b_requests, b_pages>>

\* The awaited page query raises: logged, loop left, partial list returned.
PageFails ==
    /\ b_pc = "await"
    /\ b_failed' = Len(b_pages) + 1
    /\ b_pc' = "done"
    /\ b_result' = all_records
    /\ UNCHANGED <<b_params, b_fm, b_max_results, all_records, offset,
                   batch_size, b_requests, b_pages>>

\* The task is cancelled while a page query is awaited: CancelledError is not
\* an Exception, so it leaves the function and nothing is returned.
PageCancelled ==
    /\ b_pc = "await"
    /\ b_pc' = "cancelled"
    /\ UNCHANGED <<b_params, b_fm, b_max_results, all_records, offset,
                   batch_size, b_requests, b_pages, b_failed, b_result>>

\* ------------------------------------------------------------------------
\* Density calculator (pipeline/calculator.py)
\*
\* A Python float is an exact rational [n, d] with d > 0.
\* ------------------------------------------------------------------------

RECURSIVE GCD(_, _)
GCD(a, b) == IF b = 0 THEN a ELSE GCD(b, a % b)

Abs(x) == IF x < 0 THEN -x ELSE x

Q(n, d) ==
    LET g == GCD(Abs(n), d)
    IN  IF n = 0 THEN [n |-> 0, d |-> 1] ELSE [n |-> n \div g, d |-> d \div g]

QInt(i) == [n |-> i, d |-> 1]

QMul(a, b) == Q(a.n * b.n, a.d * b.d)

\* a / b for b > 0
QDiv(a, b) == Q(a.n * b.d, a.d * b.n)

QSub(a, b) == Q(a.n * b.d - b.n * a.d, a.d * b.d)

QPos(a) == a.n > 0

\* math.floor
Floor(a) == a.n \div a.d

\* x is not None and x > 0
Present(x) == ~IsNone(x) /\ QPos(Val(x))

\* A constraint whose unit count is floored but not clamped to 1.
ConstraintResult_unclamped(name, raw) ==
    [name |-> name, max_units |-> Floor(raw), raw_value |-> raw,
     is_governing |-> FALSE]

ConstraintResult(name, raw) ==
    [name |-> name, max_units |-> Max2(1, Floor(raw)), raw_value |-> raw,
     is_governing |-> FALSE]

\* x or 0
OrZero(x) == IF IsNone(x) \/ Val(x).n = 0 THEN QInt(0) ELSE Val(x)

SetbackNote == "Setbacks exceed lot dimensions."

NoParamsNote == "No numeric zoning parameters available for calculation."

NoLotNote == "Lot size is zero or negative - cannot calculate."

\* _calc_buildable_area without the note on setbacks that exceed the lot.
_calc_buildable_area_silent(lot_width_ft, lot_depth_ft, params) ==
    IF IsNone(lot_width_ft) \/ IsNone(lot_depth_ft)
    THEN [area |-> None, notes |-> <<>>]
    ELSE IF ~QPos(Val(lot_width_ft)) \/ ~QPos(Val(lot_depth_ft))
    THEN [area |-> None, notes |-> <<>>]
    ELSE
      LET front == OrZero(params.setback_front_ft)
          rear == OrZero(params.setback_rear_ft)
          side == OrZero(params.setback_side_ft)
          buildable_width == QSub(Val(lot_width_ft), QMul(QInt(2), side))
          buildable_depth == QSub(QSub(Val(lot_depth_ft), front), rear)
      IN  IF ~QPos(buildable_width) \/ ~QPos(buildable_depth)
          THEN [area |-> Some(QInt(0)), notes |-> <<>>]
          ELSE [area |-> Some(QMul(buildable_width, buildable_depth)), notes |-> <<>>]

\* _calc_buildable_area: [area (optional), notes]
_calc_buildable_area(lot_width_ft, lot_depth_ft, params) ==
    IF IsNone(lot_width_ft) \/ IsNone(lot_depth_ft)
    THEN [area |-> None, notes |-> <<>>]
    ELSE IF ~QPos(Val(lot_width_ft)) \/ ~QPos(Val(lot_depth_ft))
    THEN [area |-> None, notes |-> <<>>]
    ELSE
      LET front == OrZero(params.setback_front_ft)
          rear == OrZero(params.setback_rear_ft)
          side == OrZero(params.setback_side_ft)
          buildable_width == QSub(Val(lot_width_ft), QMul(QInt(2), side))
          buildable_depth == QSub(QSub(Val(lot_depth_ft), front), rear)
      IN  IF ~QPos(buildable_width) \/ ~QPos(buildable_depth)
          THEN [area |-> Some(QInt(0)), notes |-> <<SetbackNote>>]
          ELSE [area |-> Some(QMul(buildable_width, buildable_depth)), notes |-> <<>>]

DensityConstraint(lot, params) ==
    IF Present(params.max_density_units_per_acre)
    THEN << ConstraintResult("density",
              QMul(Val(params.max_density_units_per_acre),
                   QDiv(lot, QInt(SQFT_PER_ACRE)))) >>
    ELSE <<>>

MinLotAreaConstraint(lot, params) ==
    IF Present(params.min_lot_area_per_unit_sqft)
    THEN << ConstraintResult("min_lot_area",
              QDiv(lot, Val(params.min_lot_area_per_unit_sqft))) >>
    ELSE <<>>

FarConstraint(lot, params) ==
    IF Present(params.far) /\ Present(params.min_unit_size_sqft)
    THEN << ConstraintResult("floor_area_ratio",
              QDiv(QMul(Val(params.far), lot), Val(params.min_unit_size_sqft))) >>
    ELSE <<>>

Stories(params) ==
    IF ~IsNone(params.max_stories) /\ Val(params.max_stories) # 0
       /\ Val(params.max_stories) > 0
    THEN Val(params.max_stories) ELSE 1

EnvelopeConstraint(buildable_sqft, params) ==
    IF Present(buildable_sqft) /\ Present(params.min_unit_size_sqft)
    THEN << ConstraintResult("buildable_envelope",
              QDiv(QMul(Val(buildable_sqft), QInt(Stories(params))),
                   Val(params.min_unit_size_sqft))) >>
    ELSE <<>>

\* A governing choice that takes the largest unit count.
GoverningIndex_largest(constraints) ==
    CHOOSE i \in DOMAIN constraints :
        /\ \A j \in DOMAIN constraints :
              constraints[j].max_units <= constraints[i].max_units
        /\ \A j \in 1..(i - 1) :
              constraints[j].max_units < constraints[i].max_units

\* A governing choice that takes the last of several minimal elements.
GoverningIndex_last_minimum(constraints) ==
    CHOOSE i \in DOMAIN constraints :
        /\ \A j \in DOMAIN constraints :
              constraints[i].max_units <= constraints[j].max_units
        /\ \A j \in (i + 1)..Len(constraints) :
              constraints[j].max_units > constraints[i].max_units

\* min(constraints, key=lambda c: c.max_units): the first minimal element.
GoverningIndex(constraints) ==
    CHOOSE i \in DOMAIN constraints :
        /\ \A j \in DOMAIN constraints :
              constraints[i].max_units <= constraints[j].max_units
        /\ \A j \in 1..(i - 1) :
              constraints[j].max_units > constraints[i].max_units

\* A confidence ladder that is already high at two constraints.
Confidence_high_at_two(constraints) ==
    IF Len(constraints) >= 2 THEN "high" ELSE "low"

Confidence(constraints) ==
    IF Len(constraints) >= 3 THEN "high"
    ELSE IF Len(constraints) = 2 THEN "medium"
    ELSE "low"

DensityAnalysis(max_units, governing, constraints, lot, buildable, width, depth, confidence, notes) ==
    [max_units |-> max_units, governing_constraint |-> governing,
     constraints |-> constraints, lot_size_sqft |-> lot,
     buildable_area_sqft |-> buildable, lot_width_ft |-> width,
     lot_depth_ft |-> depth, confidence |-> confidence, notes |-> notes]

calculate_max_units(lot_size_sqft, params, lot_width_ft, lot_depth_ft) ==
    IF ~QPos(lot_size_sqft)
    THEN DensityAnalysis(0, "no_lot_data", <<>>, lot_size_sqft, None, None, None,
                         "low", <<NoLotNote>>)
    ELSE
      LET ba == _calc_buildable_area(lot_width_ft, lot_depth_ft, params)
          constraints ==
              DensityConstraint(lot_size_sqft, params)
              \o MinLotAreaConstraint(lot_size_sqft, params)
              \o FarConstraint(lot_size_sqft, params)
              \o EnvelopeConstraint(ba.area, params)
      IN  IF constraints = <<>>
          THEN DensityAnalysis(0, "insufficient_data", <<>>, lot_size_sqft,
                               ba.area, lot_width_ft, lot_depth_ft, "low",
                               Append(ba.notes, NoParamsNote))
          ELSE
            LET g == GoverningIndex(constraints)
                marked == [constraints EXCEPT ![g].is_governing = TRUE]
            IN  DensityAnalysis(marked[g].max_units, marked[g].name, marked,
                                lot_size_sqft, ba.area, lot_width_ft,
                                lot_depth_ft, Confidence(marked), ba.notes)

\* Inputs of the calculator.
LotSizeInputs == {QInt(-100), QInt(0), QInt(5000), QInt(7500), QInt(43560)}

DensityInputs == {None, Some(QInt(0)), Some(QInt(6)), Some(QInt(12))}

MinLotAreaInputs == {None, Some(QInt(-1)), Some(QInt(7500))}

FarInputs == {None, Some(QInt(0)), Some(Q(1, 2))}

MinUnitSizeInputs == {None, Some(QInt(0)), Some(QInt(750))}

StoriesInputs == {None, Some(0), Some(2)}

FrontSetbackInputs == {None, Some(QInt(25))}

RearSetbackInputs == {None, Some(QInt(25)), Some(QInt(80))}

SideSetbackInputs == {None, Some(QInt(-5)), Some(Q(15, 2)), Some(QInt(40))}

LotDimensionInputs ==
    { <<None, None>>, <<Some(QInt(75)), Some(QInt(100))>>,
      <<Some(QInt(75)), None>>, <<Some(QInt(0)), Some(QInt(100))>> }

NumericZoningParams(density, min_lot, far, stories, front, side, rear, min_unit) ==
    [max_density_units_per_acre |-> density,
     min_lot_area_per_unit_sqft |-> min_lot, far |-> far, max_stories |-> stories,
     setback_front_ft |-> front, setback_side_ft |-> side,
     setback_rear_ft |-> rear, min_unit_size_sqft |-> min_unit]

CalcInputs ==
    { [lot |-> lot, dims |-> dims,
       params |-> NumericZoningParams(de, ml, fa, st, fr, si, re, mu)] :
        lot \in LotSizeInputs, dims \in LotDimensionInputs, de \in DensityInputs,
        ml \in MinLotAreaInputs, fa \in FarInputs, st \in StoriesInputs,
        fr \in FrontSetbackInputs, si \in SideSetbackInputs,
        re \in RearSetbackInputs, mu \in MinUnitSizeInputs }

NoCalcInput ==
    [lot |-> QInt(0), dims |-> <<None, None>>,
     params |-> NumericZoningParams(None, None, None, None, None, None, None, None)]

NoAnalysis ==
    DensityAnalysis(0, "", <<>>, QInt(0), None, None, None, "low", <<>>)

CalcResult(in) == calculate_max_units(in.lot, in.params, in.dims[1], in.dims[2])

\* calculate_max_units returns early: no lot data.
CalcNoLot ==
    /\ c_pc = "call"
    /\ CalcResult(c_in).governing_constraint = "no_lot_data"
    /\ c_out' = CalcResult(c_in)
    /\ c_pc' = "returned"
    /\ UNCHANGED c_in

\* An insufficient-data outcome that still reports one unit.
CalcInsufficient_one_unit ==
    /\ c_pc = "call"
    /\ CalcResult(c_in).governing_constraint = "insufficient_data"
    /\ c_out' = [CalcResult(c_in) EXCEPT !.max_units = 1]
    /\ c_pc' = "returned"
    /\ UNCHANGED c_in

\* calculate_max_units finds no evaluable constraint.
CalcInsufficient ==
    /\ c_pc = "call"
    /\ CalcResult(c_in).governing_constraint = "insufficient_data"
    /\ c_out' = CalcResult(c_in)
    /\ c_pc' = "returned"
    /\ UNCHANGED c_in

\* calculate_max_units returns a governed analysis.
CalcGoverned ==
    /\ c_pc = "call"
    /\ CalcResult(c_in).governing_constraint \notin {"no_lot_data", "insufficient_data"}
    /\ c_out' = CalcResult(c_in)
    /\ c_pc' = "returned"
    /\ UNCHANGED c_in

\* ------------------------------------------------------------------------
\* Hybrid search (retrieval/search.py)
\* ------------------------------------------------------------------------

RRF_K == 60

\* Number of rows of ordinance_chunks.
NumChunks == 4

ChunkIds == 1..NumChunks

RECURSIVE Like(_, _)
\* SQL LIKE: % matches any run of characters, _ any one character.
Like(s, p) ==
    IF p = <<>> THEN s = <<>>
    ELSE IF Head(p) = "%"
    THEN Like(s, Tail(p)) \/ (s # <<>> /\ Like(Tail(s), p))
    ELSE /\ s # <<>>
         /\ (Head(p) = "_" \/ Head(p) = Head(s))
         /\ Like(Tail(s), Tail(p))

\* SQL ILIKE
ILike(s, p) == Like(Lower(s), Lower(p))

\* f"%{municipality}%"
MunicipalityPattern(municipality) == <<"%">> \o municipality \o <<"%">>

Take(seq, n) == SubSeq(seq, 1, Min2(n, Len(seq)))

Position(seq, x) == CHOOSE i \in DOMAIN seq : seq[i] = x

\* ORDER BY: the elements of S from first to last under the strict total
\* order Before.
Ordered(S, Before(_, _)) ==
    LET preceded == {<<Cardinality({y \in S : Before(y, x)}), x>> : x \in S}
    IN  [i \in 1..Cardinality(S) |-> (CHOOSE p \in preceded : p[1] = i - 1)[2]]

QAdd(a, b) == Q(a.n * b.d + b.n * a.d, a.d * b.d)

QLess(a, b) == a.n * b.d < b.n * a.d

\* The rows that pass WHERE municipality ILIKE :municipality; the pattern is
\* matched once against each distinct municipality of the table.
MunicipalityRows(store, municipality) ==
    LET matching == {m \in {store[c].municipality : c \in ChunkIds} :
                        ILike(m, MunicipalityPattern(municipality))}
    IN  {c \in ChunkIds : store[c].municipality \in matching}

\* WHERE municipality ILIKE :municipality AND embedding IS NOT NULL
\* ORDER BY embedding <=> :embedding LIMIT :pool
VectorResults(store, municipality, pool, row_order) ==
    LET hits == {c \in MunicipalityRows(store, municipality) : store[c].has_embedding}
        scanned == [c \in ChunkIds |-> Position(row_order, c)]
        before(a, b) ==
            \/ store[a].distance < store[b].distance
            \/ /\ store[a].distance = store[b].distance
               /\ scanned[a] < scanned[b]
    IN  Take(Ordered(hits, before), pool)

\* WHERE municipality ILIKE :municipality
\*   AND (search_vector @@ plainto_tsquery(:query) OR :zone_code = ANY(zone_codes))
\* ORDER BY ts_rank(...) DESC
KeywordHits(store, municipality, zone_code, row_order) ==
    LET hits == {c \in MunicipalityRows(store, municipality) :
                    store[c].ts_match \/ zone_code \in store[c].zone_codes}
        scanned == [c \in ChunkIds |-> Position(row_order, c)]
        before(a, b) ==
            \/ store[a].ts_rank > store[b].ts_rank
            \/ /\ store[a].ts_rank = store[b].ts_rank
               /\ scanned[a] < scanned[b]
    IN  Ordered(hits, before)

\* COALESCE(1.0 / (:rrf_k + rank), 0): rank 0 stands for a NULL rank.
RankTerm_rank_zero(rank) == Q(1, RRF_K + rank)

RankTerm(rank) == IF rank = 0 THEN QInt(0) ELSE Q(1, RRF_K + rank)

RankIn(results, c) ==
    IF \E i \in DOMAIN results : results[i] = c THEN Position(results, c) ELSE 0

SearchResult(store, c, score) ==
    [chunk |-> c, municipality |-> store[c].municipality,
     zone_codes |-> store[c].zone_codes, score |-> score]

\* _hybrid_rrf: the fused query. vector_results v FULL OUTER JOIN
\* keyword_results k, ORDER BY rrf_score DESC LIMIT :limit.
_hybrid_rrf(store, municipality, zone_code, limit, row_order) ==
    LET pool_size == limit * 3
        v == VectorResults(store, municipality, pool_size, row_order)
        k == Take(KeywordHits(store, municipality, zone_code, row_order), pool_size)
        joined == {SearchResult(store, c,
                                QAdd(RankTerm(RankIn(v, c)), RankTerm(RankIn(k, c)))) :
                      c \in {v[i] : i \in DOMAIN v} \cup {k[i] : i \in DOMAIN k}}
        scanned == [c \in ChunkIds |-> Position(row_order, c)]
        before(a, b) ==
            \/ QLess(b.score, a.score)
            \/ /\ a.score = b.score
               /\ scanned[a.chunk] < scanned[b.chunk]
    IN  Take(Ordered(joined, before), limit)

\* Keyword query whose municipality filter is missing.
_keyword_only_unfiltered(store, municipality, zone_code, limit, row_order) ==
    LET rows == Take(KeywordHits(store, <<>>, zone_code, row_order), limit)
    IN  [i \in DOMAIN rows |->
            SearchResult(store, rows[i], QInt(store[rows[i]].ts_rank))]

\* _keyword_only: the lexical query.
_keyword_only(store, municipality, zone_code, limit, row_order) ==
    LET rows == Take(KeywordHits(store, municipality, zone_code, row_order), limit)
    IN  [i \in DOMAIN rows |->
            SearchResult(store, rows[i], QInt(store[rows[i]].ts_rank))]

\* Inputs: the chunk store and the request.
StoredMunicipalities ==
    { <<"M","i","a","m","i">>,
      <<"M","i","a","m","i"," ","G","a","r","d","e","n","s">> }

RequestedMunicipalities ==
    { <<"M","i","a","m","i">>,
      <<"m","i","a","m","i"," ","g","a","r","d","e","n","s">> }

QueryZoneCode == "RS-1"

\* Lexical standing of a chunk against the query.
KeywordInputs ==
    { [ts_match |-> FALSE, ts_rank |-> 0, zone_codes |-> {}],
      [ts_match |-> FALSE, ts_rank |-> 0, zone_codes |-> {QueryZoneCode}],
      [ts_match |-> TRUE, ts_rank |-> 1, zone_codes |-> {}] }

\* The chunks that may lack an embedding.
MissingEmbeddingInputs == {{}, {NumChunks}}

\* Municipality of each chunk: the chunks of one municipality are ingested
\* together, so the table holds one run of chunks per municipality.
MunicipalityInputs ==
    { [c \in ChunkIds |-> IF c <= k THEN first ELSE second] :
        k \in 0..NumChunks, first \in StoredMunicipalities,
        second \in StoredMunicipalities }

Stores ==
    { [c \in ChunkIds |->
          [municipality |-> mu[c], has_embedding |-> c \notin me, distance |-> c,
           ts_match |-> kw[c].ts_match, ts_rank |-> kw[c].ts_rank,
           zone_codes |-> kw[c].zone_codes]] :
        mu \in MunicipalityInputs,
        kw \in [ChunkIds -> KeywordInputs],
        me \in MissingEmbeddingInputs }

LimitInputs == {1, 2}

\* Row orders the store may scan its rows in.
RowOrders ==
    { [i \in ChunkIds |-> i], [i \in ChunkIds |-> NumChunks + 1 - i] }

SearchRequests ==
    { [municipality |-> m, zone_code |-> QueryZoneCode, limit |-> l, embedding |-> e] :
        m \in RequestedMunicipalities, l \in LimitInputs,
        e \in {"None", "supplied"} }

NoStore ==
    [c \in ChunkIds |->
        [municipality |-> <<>>, has_embedding |-> FALSE, distance |-> c,
         ts_match |-> FALSE, ts_rank |-> 0, zone_codes |-> {}]]

NoRequest == [municipality |-> <<>>, zone_code |-> "", limit |-> 0, embedding |-> "None"]

NoQuery == [mode |-> "", municipality |-> <<>>, query |-> "", limit |-> 0]

NoEmbedCall == [texts |-> <<>>, input_type |-> "", outcome |-> ""]

\* hybrid_search is called: with an embedding it goes to the fused query,
\* without one it awaits embed_texts([zone_code], input_type="query").
HybridSearchCall ==
    /\ s_pc = "call"
    /\ IF s_req.embedding = "None"
       THEN /\ s_pc' = "embedding"
            /\ s_embed' = [texts |-> <<s_req.zone_code>>, input_type |-> "query",
                           outcome |-> "pending"]
            /\ s_embedding' = "None"
       ELSE /\ s_pc' = "query"
            /\ s_embedding' = s_req.embedding
            /\ s_embed' = s_embed
    /\ UNCHANGED <<s_store, s_req, s_query, s_result>>

\* embed_texts returns a list of vectors (possibly empty):
\* embedding = vectors[0] if vectors else None
EmbedReturns(vectors) ==
    /\ s_pc = "embedding"
    /\ s_embedding' = IF vectors # <<>> THEN vectors[1] ELSE "None"
    /\ s_embed' = [s_embed EXCEPT !.outcome = IF vectors # <<>> THEN "vector" ELSE "empty"]
    /\ s_pc' = "query"
    /\ UNCHANGED <<s_store, s_req, s_query, s_result>>

\* An embedding failure that is re-raised to the caller.
EmbedRaises_propagates ==
    /\ s_pc = "embedding"
    /\ s_embedding' = "None"
    /\ s_embed' = [s_embed EXCEPT !.outcome = "raised"]
    /\ s_pc' = "raised"
    /\ UNCHANGED <<s_store, s_req, s_query, s_result>>

\* embed_texts raises: logged, embedding = None.
EmbedRaises ==
    /\ s_pc = "embedding"
    /\ s_embedding' = "None"
    /\ s_embed' = [s_embed EXCEPT !.outcome = "raised"]
    /\ s_pc' = "query"
    /\ UNCHANGED <<s_store, s_req, s_query, s_result>>

\* The fused query runs and its rows are returned.
HybridRrfReturns(row_order) ==
    /\ s_pc = "query"
    /\ s_embedding # "None"
    /\ s_query' = [mode |-> "hybrid_rrf", municipality |-> s_req.municipality,
                   query |-> s_req.zone_code, limit |-> s_req.limit]
    /\ s_result' = _hybrid_rrf(s_store, s_req.municipality, s_req.zone_code,
                               s_req.limit, row_order)
    /\ s_pc' = "returned"
    /\ UNCHANGED <<s_store, s_req, s_embed, s_embedding>>

\* The lexical query runs and its rows are returned.
KeywordOnlyReturns(row_order) ==
    /\ s_pc = "query"
    /\ s_embedding = "None"
    /\ s_query' = [mode |-> "keyword_only", municipality |-> s_req.municipality,
                   query |-> s_req.zone_code, limit |-> s_req.limit]
    /\ s_result' = _keyword_only(s_store, s_req.municipality, s_req.zone_code,
                                 s_req.limit, row_order)
    /\ s_pc' = "returned"
    /\ UNCHANGED <<s_store, s_req, s_embed, s_embedding>>

\* session.execute raises: the error reaches the caller of hybrid_search.
SearchQueryRaises ==
    /\ s_pc = "query"
    /\ s_query' = [mode |-> IF s_embedding # "None" THEN "hybrid_rrf" ELSE "keyword_only",
                   municipality |-> s_req.municipality,
                   query |-> s_req.zone_code, limit |-> s_req.limit]
    /\ s_pc' = "raised"
    /\ UNCHANGED <<s_store, s_req, s_embed, s_embedding, s_result>>

\* ------------------------------------------------------------------------
\* Safe filter parser (bulk_search.py)
\* ------------------------------------------------------------------------

Digits == <<"0", "1", "2", "3", "4", "5", "6", "7", "8", "9">>

IsDigit(c) == \E i \in DOMAIN Digits : Digits[i] = c

DigitValue(c) == Position(Digits, c) - 1

\* \w
IsWord(c) ==
    c \in DOMAIN ToLowerTable \/ c \in DOMAIN ToUpperTable \/ IsDigit(c) \/ c = "_"

\* s[n:]
Drop(s, n) == SubSeq(s, n + 1, Len(s))

RECURSIVE SpaceRun(_)
\* Length of the longest prefix of s that \s* can take.
SpaceRun(s) == IF s # <<>> /\ IsSpace(Head(s)) THEN 1 + SpaceRun(Tail(s)) ELSE 0

RECURSIVE WordRun(_)
\* Length of the longest prefix of s that \w* can take.
WordRun(s) == IF s # <<>> /\ IsWord(Head(s)) THEN 1 + WordRun(Tail(s)) ELSE 0

RECURSIVE LineRun(_)
\* Length of the longest prefix of s that .* can take.
LineRun(s) == IF s # <<>> /\ Head(s) # "\n" THEN 1 + LineRun(Tail(s)) ELSE 0

\* Does s start with word, ignoring case?
StartsWith(s, word) ==
    Len(s) >= Len(word) /\ Lower(SubSeq(s, 1, Len(word))) = Lower(word)

\* Values held by record fields and by parsed filter values: str, float,
\* int and None.
PyStr(s) == [t |-> "str", s |-> s, q |-> QInt(0)]

PyFloat(q) == [t |-> "float", s |-> <<>>, q |-> q]

PyInt(i) == [t |-> "int", s |-> <<>>, q |-> QInt(i)]

PyNone == [t |-> "None", s |-> <<>>, q |-> QInt(0)]

\* Length of the match of \s+and\s+ at the start of s, 0 when there is none.
AndSeparator(s) ==
    LET a == SpaceRun(s)
        b == SpaceRun(Drop(s, a + 3))
    IN  IF a > 0 /\ StartsWith(Drop(s, a), <<"a", "n", "d">>) /\ b > 0
        THEN a + 3 + b
        ELSE 0

RECURSIVE SplitAnd(_, _)
\* re.split(r"\s+and\s+", expression, flags=re.IGNORECASE); piece is the
\* text read since the last separator.
SplitAnd(piece, s) ==
    IF s = <<>> THEN <<piece>>
    ELSE IF AndSeparator(s) > 0
    THEN <<piece>> \o SplitAnd(<<>>, Drop(s, AndSeparator(s)))
    ELSE SplitAnd(Append(piece, Head(s)), Tail(s))

\* The alternatives of the operator group of _FILTER_PATTERN, in order.
FilterOperators ==
    << <<"=", "=">>, <<"!", "=">>, <<">", "=">>, <<"<", "=">>, <<">">>, <<"<">>,
       <<"c", "o", "n", "t", "a", "i", "n", "s">> >>

\* Every way (\w+)\s*(op)\s*(.+) matches at the start of clause: k word
\* characters, w blanks, alternative j, u blanks, then at least one
\* character other than a newline.
FilterMatches(clause) ==
    UNION { UNION { UNION {
        { <<k, w, j, u>> :
            u \in { u \in 0..SpaceRun(Drop(clause, k + w + Len(FilterOperators[j]))) :
                      LineRun(Drop(clause, k + w + Len(FilterOperators[j]) + u)) > 0 } } :
            j \in { j \in DOMAIN FilterOperators :
                      StartsWith(Drop(clause, k + w), FilterOperators[j]) } } :
            w \in 0..SpaceRun(Drop(clause, k)) } :
            k \in 1..WordRun(clause) }

\* The order in which the backtracking matcher tries them: greedy groups
\* from longest to shortest, alternatives from left to right.
TriedBefore(m, o) ==
    \/ m[1] > o[1]
    \/ m[1] = o[1] /\ m[2] > o[2]
    \/ m[1] = o[1] /\ m[2] = o[2] /\ m[3] < o[3]
    \/ m[1] = o[1] /\ m[2] = o[2] /\ m[3] = o[3] /\ m[4] > o[4]

\* _FILTER_PATTERN.match(clause): None, or the three groups.
FilterPatternMatch(clause) ==
    LET found == FilterMatches(clause)
    IN  IF found = {} THEN None
        ELSE LET m == CHOOSE m \in found : \A o \in found \ {m} : TriedBefore(m, o)
                 at_op == m[1] + m[2]
                 at_value == at_op + Len(FilterOperators[m[3]]) + m[4]
             IN  Some([field_name |-> SubSeq(clause, 1, m[1]),
                       operator |-> SubSeq(clause, at_op + 1,
                                           at_op + Len(FilterOperators[m[3]])),
                       raw |-> SubSeq(clause, at_value + 1,
                                      at_value + LineRun(Drop(clause, at_value)))])

Quotes == {"'", "\""}

RECURSIVE StripQuotes(_)
\* str.strip("'\"")
StripQuotes(s) ==
    IF s # <<>> /\ Head(s) \in Quotes THEN StripQuotes(Tail(s))
    ELSE IF s # <<>> /\ s[Len(s)] \in Quotes THEN StripQuotes(SubSeq(s, 1, Len(s) - 1))
    ELSE s

RECURSIVE DigitsValue(_)
DigitsValue(s) ==
    IF s = <<>> THEN 0
    ELSE 10 * DigitsValue(SubSeq(s, 1, Len(s) - 1)) + DigitValue(s[Len(s)])

\* float(raw) for decimal literals: None stands for ValueError.
ParseFloat(raw) ==
    LET t == Strip(raw)
        signed == t # <<>> /\ Head(t) \in {"+", "-"}
        body == IF signed THEN Tail(t) ELSE t
        points == {i \in DOMAIN body : body[i] = "."}
        point == IF points = {} THEN Len(body) + 1 ELSE CHOOSE i \in points : TRUE
        whole == SubSeq(body, 1, point - 1)
        fraction == SubSeq(body, point + 1, Len(body))
        digits == whole \o fraction
        magnitude == Q(DigitsValue(digits), 10 ^ Len(fraction))
    IN  IF /\ Cardinality(points) <= 1
           /\ digits # <<>>
           /\ \A i \in DOMAIN digits : IsDigit(digits[i])
        THEN Some(IF signed /\ Head(t) = "-"
                  THEN [n |-> -magnitude.n, d |-> magnitude.d]
                  ELSE magnitude)
        ELSE None

\* _parse_value: numeric first, then string.
_parse_value(raw) ==
    LET stripped == StripQuotes(Strip(raw))
        number == ParseFloat(stripped)
    IN  IF IsNone(number) THEN PyStr(stripped) ELSE PyFloat(Val(number))

RECURSIVE NatStr(_)
NatStr(n) ==
    IF n < 10 THEN <<Digits[n + 1]>>
    ELSE Append(NatStr(n \div 10), Digits[(n % 10) + 1])

\* str(i) for an int
IntStr(i) == IF i < 0 THEN <<"-">> \o NatStr(-i) ELSE NatStr(i)

RECURSIVE ZeroPad(_, _)
ZeroPad(s, width) == IF Len(s) >= width THEN s ELSE ZeroPad(<<"0">> \o s, width)

\* str(x) for a float with a short decimal expansion: 12.0, 12.5, 0.25, 0.123
FloatStr(q) ==
    LET places == CHOOSE k \in 1..6 :
                      /\ (10 ^ k) % q.d = 0
                      /\ \A j \in 1..(k - 1) : (10 ^ j) % q.d # 0
        scaled == (Abs(q.n) * 10 ^ places) \div q.d
    IN  (IF q.n < 0 THEN <<"-">> ELSE <<>>)
        \o NatStr(scaled \div 10 ^ places) \o <<".">>
        \o ZeroPad(NatStr(scaled % 10 ^ places), places)

\* str(x)
Str(x) ==
    CASE x.t = "str" -> x.s
      [] x.t = "float" -> FloatStr(x.q)
      [] x.t = "int" -> IntStr(x.q.n)
      [] x.t = "long" -> x.s
      [] OTHER -> <<"N", "o", "n", "e">>

\* The printable ASCII characters in code point order, from the space (32)
\* to the tilde (126), without the grave accent (96).
Ascii ==
    <<" ", "!", "\"", "#", "$", "%", "&", "'", "(", ")", "*", "+", ",", "-",
      ".", "/", "0", "1", "2", "3", "4", "5", "6", "7", "8", "9", ":", ";",
      "<", "=", ">", "?", "@", "A", "B", "C", "D", "E", "F", "G", "H", "I",
      "J", "K", "L", "M", "N", "O", "P", "Q", "R", "S", "T", "U", "V", "W",
      "X", "Y", "Z", "[", "\\", "]", "^", "_", "a", "b", "c", "d", "e",
      "f", "g", "h", "i", "j", "k", "l", "m", "n", "o", "p", "q", "r", "s",
      "t", "u", "v", "w", "x", "y", "z", "{", "|", "}", "~">>

\* ord(c)
Ord(c) ==
    IF c = "\t" THEN 9
    ELSE IF c = "\n" THEN 10
    ELSE IF Position(Ascii, c) <= 64 THEN 31 + Position(Ascii, c)
    ELSE 32 + Position(Ascii, c)

RECURSIVE StrLess(_, _)
\* a < b for two str
StrLess(a, b) ==
    IF b = <<>> THEN FALSE
    ELSE IF a = <<>> THEN TRUE
    ELSE IF Head(a) = Head(b) THEN StrLess(Tail(a), Tail(b))
    ELSE Ord(Head(a)) < Ord(Head(b))

\* needle in hay
Contains(hay, needle) ==
    \E k \in 0..(Len(hay) - Len(needle)) :
        SubSeq(hay, k + 1, k + Len(needle)) = needle

IsNumber(x) == x.t \in {"float", "int"}

\* record.get(field_name)
RecordGet(record, field_name) ==
    IF field_name \in DOMAIN record THEN record[field_name] ELSE PyNone

\* A None check that lets every value through.
IsMissing_never(record_val) == FALSE

\* record_val is None
IsMissing(record_val) == record_val.t = "None"

\* One filter against one record value: the value of passes after the try
\* block. Ordering a number against a str raises TypeError: passes = False.
Passes(operator, record_val, value) ==
    LET both_str == value.t = "str" /\ record_val.t = "str"
        both_numbers == IsNumber(value) /\ IsNumber(record_val)
        rv == IF both_str THEN PyStr(Lower(record_val.s)) ELSE record_val
        v == IF both_str THEN PyStr(Lower(value.s)) ELSE value
        equal ==
            \/ both_str /\ rv.s = v.s
            \/ both_numbers /\ rv.q = v.q
        less(x, y) ==
            \/ both_str /\ StrLess(x.s, y.s)
            \/ both_numbers /\ QLess(x.q, y.q)
        ordered == both_str \/ both_numbers
    IN  IF operator = <<"=", "=">> THEN equal
        ELSE IF operator = <<"!", "=">> THEN ~equal
        ELSE IF operator = <<">">> THEN less(v, rv)
        ELSE IF operator = <<"<">> THEN less(rv, v)
        ELSE IF operator = <<">", "=">> THEN ordered /\ ~less(rv, v)
        ELSE IF operator = <<"<", "=">> THEN ordered /\ ~less(v, rv)
        ELSE IF Lower(operator) = <<"c", "o", "n", "t", "a", "i", "n", "s">>
        THEN Contains(Lower(Str(record_val)), Lower(Str(value)))
        ELSE FALSE

RECURSIVE RecordPasses(_, _)
\* The loop over the filters for one record, left at the first filter that
\* the record does not pass.
RecordPasses(record, filters) ==
    IF filters = <<>> THEN TRUE
    ELSE LET record_val == RecordGet(record, Head(filters).field_name)
         IN  IF IsMissing(record_val) THEN FALSE
             ELSE IF ~Passes(Head(filters).operator, record_val, Head(filters).value)
             THEN FALSE
             ELSE RecordPasses(record, Tail(filters))

\* The clauses of a non-empty expression.
Clauses(expression) == SplitAnd(<<>>, expression)

\* Does the parsing loop reach a clause the pattern does not match?
Unparseable(expression) ==
    \E i \in DOMAIN Clauses(expression) :
        IsNone(FilterPatternMatch(Strip(Clauses(expression)[i])))

\* The list filters once every clause has matched.
Filters(expression) ==
    [i \in DOMAIN Clauses(expression) |->
        LET match == Val(FilterPatternMatch(Strip(Clauses(expression)[i])))
        IN  [field_name |-> match.field_name, operator |-> match.operator,
             value |-> _parse_value(match.raw)]]

\* _safe_filter(records, expression)
_safe_filter(records, expression) ==
    IF expression = <<>> \/ records = <<>> THEN records
    ELSE IF Unparseable(expression) THEN records
    ELSE SelectSeq(records, LAMBDA record : RecordPasses(record, Filters(expression)))

\* Inputs: records as dicts from field name to value, and expressions.
LotSizeKey == <<"l","o","t","_","s","i","z","e","_","s","q","f","t">>

CityKey == <<"c","i","t","y">>

OwnerKey == <<"o","w","n","e","r">>

FolioKey == <<"f","o","l","i","o">>

FilterRecords ==
    { (LotSizeKey :> PyInt(15000)) @@ (CityKey :> PyStr(<<"M","I","A","M","I">>))
          @@ (OwnerKey :> PyStr(<<"J","O","H","N"," ","D","O","E">>)),
      (LotSizeKey :> PyFloat(QInt(5000))) @@ (CityKey :> PyStr(<<"M","I","R","A","M","A","R">>))
          @@ (OwnerKey :> PyStr(<<"J","A","N","E"," ","S","M","I","T","H">>)),
      (CityKey :> PyStr(<<"M","I","A","M","I">>)),
      (LotSizeKey :> PyNone) @@ (CityKey :> PyStr(<<"M","i","a","m","i"," ","G","a","r","d","e","n","s">>))
          @@ (OwnerKey :> PyStr(<<"J","O","H","N"," ","D","O","E">>)),
      (LotSizeKey :> PyFloat(Q(25, 2))) @@ (CityKey :> PyStr(<<"M","I","R","A","M","A","R">>))
          @@ (FolioKey :> PyStr(<<"0","1","3","1">>)) }

\* Longest record list.
MaxRecords == 2

FilterRecordInputs == UNION { [1..n -> FilterRecords] : n \in 0..MaxRecords }

FilterExpressionInputs ==
    { \* (empty)
      <<>>,
      \* (three blanks)
      <<" ", " ", " ">>,
      \* lot_size_sqft > 10000
      <<"l", "o", "t", "_", "s", "i", "z", "e", "_", "s", "q", "f", "t", " ",
        ">", " ", "1", "0", "0", "0", "0">>,
      \* city == 'MIAMI'
      <<"c", "i", "t", "y", " ", "=", "=", " ", "'", "M", "I", "A", "M", "I",
        "'">>,
      \* city == 'miami gardens'
      <<"c", "i", "t", "y", " ", "=", "=", " ", "'", "m", "i", "a", "m", "i",
        " ", "g", "a", "r", "d", "e", "n", "s", "'">>,
      \* lot_size_sqft > 10000 and city == 'MIAMI'
      <<"l", "o", "t", "_", "s", "i", "z", "e", "_", "s", "q", "f", "t", " ",
        ">", " ", "1", "0", "0", "0", "0", " ", "a", "n", "d", " ", "c", "i",
        "t", "y", " ", "=", "=", " ", "'", "M", "I", "A", "M", "I", "'">>,
      \* invalid garbage!!!
      <<"i", "n", "v", "a", "l", "i", "d", " ", "g", "a", "r", "b", "a", "g",
        "e", "!", "!", "!">>,
      \* owner contains 'john'
      <<"o", "w", "n", "e", "r", " ", "c", "o", "n", "t", "a", "i", "n", "s",
        " ", "'", "j", "o", "h", "n", "'">>,
      \* lot_size_sqft <= 5000
      <<"l", "o", "t", "_", "s", "i", "z", "e", "_", "s", "q", "f", "t", " ",
        "<", "=", " ", "5", "0", "0", "0">>,
      \* city != 'MIAMI'
      <<"c", "i", "t", "y", " ", "!", "=", " ", "'", "M", "I", "A", "M", "I",
        "'">>,
      \* lot_size_sqft != 5000
      <<"l", "o", "t", "_", "s", "i", "z", "e", "_", "s", "q", "f", "t", " ",
        "!", "=", " ", "5", "0", "0", "0">>,
      \* lot_size_sqft == 5000
      <<"l", "o", "t", "_", "s", "i", "z", "e", "_", "s", "q", "f", "t", " ",
        "=", "=", " ", "5", "0", "0", "0">>,
      \* lot_size_sqft <> 10000
      <<"l", "o", "t", "_", "s", "i", "z", "e", "_", "s", "q", "f", "t", " ",
        "<", ">", " ", "1", "0", "0", "0", "0">>,
      \* lot_size_sqft => 10000
      <<"l", "o", "t", "_", "s", "i", "z", "e", "_", "s", "q", "f", "t", " ",
        "=", ">", " ", "1", "0", "0", "0", "0">>,
      \* lot_size_sqft >=
      <<"l", "o", "t", "_", "s", "i", "z", "e", "_", "s", "q", "f", "t", " ",
        ">", "=">>,
      \* city == 'MIAMI' AND lot_size_sqft ~ 5
      <<"c", "i", "t", "y", " ", "=", "=", " ", "'", "M", "I", "A", "M", "I",
        "'", " ", "A", "N", "D", " ", "l", "o", "t", "_", "s", "i", "z", "e",
        "_", "s", "q", "f", "t", " ", "~", " ", "5">>,
      \* lot_size_sqft ~ 5 and city == 'MIAMI'
      <<"l", "o", "t", "_", "s", "i", "z", "e", "_", "s", "q", "f", "t", " ",
        "~", " ", "5", " ", "a", "n", "d", " ", "c", "i", "t", "y", " ", "=",
        "=", " ", "'", "M", "I", "A", "M", "I", "'">>,
      \* lot_size_sqft >= 12.5
      <<"l", "o", "t", "_", "s", "i", "z", "e", "_", "s", "q", "f", "t", " ",
        ">", "=", " ", "1", "2", ".", "5">>,
      \* lot_size_sqft < 'abc'
      <<"l", "o", "t", "_", "s", "i", "z", "e", "_", "s", "q", "f", "t", " ",
        "<", " ", "'", "a", "b", "c", "'">>,
      \* city > 5
      <<"c", "i", "t", "y", " ", ">", " ", "5">>,
      \* city < 'miami gardens'
      <<"c", "i", "t", "y", " ", "<", " ", "'", "m", "i", "a", "m", "i", " ",
        "g", "a", "r", "d", "e", "n", "s", "'">>,
      \* lot_size_sqft contains 12
      <<"l", "o", "t", "_", "s", "i", "z", "e", "_", "s", "q", "f", "t", " ",
        "c", "o", "n", "t", "a", "i", "n", "s", " ", "1", "2">>,
      \* lot_size_sqft CONTAINS '.5'
      <<"l", "o", "t", "_", "s", "i", "z", "e", "_", "s", "q", "f", "t", " ",
        "C", "O", "N", "T", "A", "I", "N", "S", " ", "'", ".", "5", "'">>,
      \* city=='MIAMI'
      <<"c", "i", "t", "y", "=", "=", "'", "M", "I", "A", "M", "I", "'">>,
      \* folio == '0131'
      <<"f", "o", "l", "i", "o", " ", "=", "=", " ", "'", "0", "1", "3", "1",
        "'">>,
      \* year_built == 2005
      <<"y", "e", "a", "r", "_", "b", "u", "i", "l", "t", " ", "=", "=", " ",
        "2", "0", "0", "5">>,
      \* lot_size_sqft > -1  and  owner contains 'doe' and city != 'miramar'
      <<"l", "o", "t", "_", "s", "i", "z", "e", "_", "s", "q", "f", "t", " ",
        ">", " ", "-", "1", " ", " ", "a", "n", "d", " ", " ", "o", "w", "n",
        "e", "r", " ", "c", "o", "n", "t", "a", "i", "n", "s", " ", "'", "d",
        "o", "e", "'", " ", "a", "n", "d", " ", "c", "i", "t", "y", " ", "!",
        "=", " ", "'", "m", "i", "r", "a", "m", "a", "r", "'">> }

\* _safe_filter returns its argument: there is no expression or no record.
SafeFilterSkips ==
    /\ f_pc = "call"
    /\ f_expression = <<>> \/ f_records = <<>>
    /\ f_result' = _safe_filter(f_records, f_expression)
    /\ f_pc' = "returned"
    /\ UNCHANGED <<f_records, f_expression>>

\* A clause does not match the pattern: the graceful fallback.
SafeFilterFallsBack ==
    /\ f_pc = "call"
    /\ f_expression # <<>> /\ f_records # <<>>
    /\ Unparseable(f_expression)
    /\ f_result' = _safe_filter(f_records, f_expression)
    /\ f_pc' = "returned"
    /\ UNCHANGED <<f_records, f_expression>>

\* Every clause matches: the records are filtered.
SafeFilterApplies ==
    /\ f_pc = "call"
    /\ f_expression # <<>> /\ f_records # <<>>
    /\ ~Unparseable(f_expression)
    /\ f_result' = _safe_filter(f_records, f_expression)
    /\ f_pc' = "returned"
    /\ UNCHANGED <<f_records, f_expression>>

\* ------------------------------------------------------------------------
\* Record normalization (bulk_search.py, property.py)
\* ------------------------------------------------------------------------

\* An int too wide for the checker's integers, kept as its decimal text
\* (epoch milliseconds).
PyLong(digits) == [t |-> "long", s |-> digits, q |-> QInt(0)]

\* str.replace(old, "") for a one-character old
Remove(s, old) == SelectSeq(s, LAMBDA c : c # old)

\* _safe_float: 0.0 for None, an empty string and anything float() rejects.
_safe_float(val) ==
    IF val.t = "None" THEN QInt(0)
    ELSE LET s == Strip(Remove(Remove(Str(val), "$"), ","))
             number == ParseFloat(s)
         IN  IF s = <<>> \/ IsNone(number) THEN QInt(0) ELSE Val(number)

\* round(x, 1): to the nearest tenth, a tie going to the even tenth.
Round1(x) ==
    LET tenths == Floor(Q(x.n * 10, x.d))
        twice == Floor(Q(x.n * 20, x.d)) - 2 * tenths
        tie == (x.n * 20) % x.d = 0
    IN  IF twice = 0 THEN Q(tenths, 10)
        ELSE IF tie /\ tenths % 2 = 0 THEN Q(tenths, 10)
        ELSE Q(tenths + 1, 10)

\* The lot size taken over without its unit conversion.
LotSqft_unconverted(attrs, fm) ==
    IF fm.lot_size # "" THEN _safe_float(attrs.lot_size) ELSE QInt(0)

\* Lot size -> always sqft (before rounding).
LotSqft(attrs, fm) ==
    LET raw_lot == IF fm.lot_size # "" THEN _safe_float(attrs.lot_size) ELSE QInt(0)
    IN  IF fm.lot_size_unit = "acres" /\ QPos(raw_lot)
        THEN QMul(raw_lot, QInt(SQFT_PER_ACRE))
        ELSE raw_lot

\* bool(x) of an attribute value
Truthy(x) ==
    CASE x.t = "None" -> FALSE
      [] x.t = "str" -> x.s # <<>>
      [] x.t = "long" -> \E i \in DOMAIN x.s : IsDigit(x.s[i]) /\ x.s[i] # "0"
      [] OTHER -> x.q.n # 0

\* isinstance(x, (int, float)) and x > 0
IsPositiveNumber(x) ==
    \/ x.t \in {"int", "float"} /\ QPos(x.q)
    \/ x.t = "long" /\ Head(x.s) # "-" /\ Truthy(x)

RECURSIVE LongDivide(_, _)
\* Quotient and remainder of a decimal text by a divisor.
LongDivide(digits, divisor) ==
    IF digits = <<>> THEN [quot |-> 0, rem |-> 0]
    ELSE LET prev == LongDivide(SubSeq(digits, 1, Len(digits) - 1), divisor)
             cur == prev.rem * 10 + DigitValue(digits[Len(digits)])
         IN  [quot |-> prev.quot * 10 + cur \div divisor, rem |-> cur % divisor]

MsPerDay == 86400000

\* Whole days since 1970-01-01 of a positive epoch-millisecond value.
EpochDays(x) ==
    IF x.t = "long" THEN LongDivide(x.s, MsPerDay).quot
    ELSE Floor(x.q) \div MsPerDay

\* The proleptic Gregorian date of a day number (inverse of DaysFromCivil).
CivilFromDays(days) ==
    LET z   == days + 719468
        era == z \div 146097
        doe == z - era * 146097
        yoe == (doe - doe \div 1460 + doe \div 36524 - doe \div 146096) \div 365
        doy == doe - (365 * yoe + yoe \div 4 - yoe \div 100)
        mp  == (5 * doy + 2) \div 153
        m   == IF mp < 10 THEN mp + 3 ELSE mp - 9
    IN  [y |-> yoe + era * 400 + (IF m <= 2 THEN 1 ELSE 0), m |-> m,
         d |-> doy - (153 * mp + 2) \div 5 + 1]

\* strftime("%Y-%m-%d")
IsoDate(date) ==
    ZeroPad(NatStr(date.y), 4) \o <<"-">> \o ZeroPad(NatStr(date.m), 2)
        \o <<"-">> \o ZeroPad(NatStr(date.d), 2)

\* datetime.MAXYEAR: fromtimestamp raises ValueError beyond it.
MAXYEAR == 9999

\* Sale date -> ISO string
SaleDate(attrs, fm) ==
    LET raw_date == attrs.sale_date
    IN  IF fm.sale_date = "" \/ ~Truthy(raw_date) THEN <<>>
        ELSE IF fm.sale_date_format = "epoch_ms" /\ IsPositiveNumber(raw_date)
        THEN LET date == CivilFromDays(EpochDays(raw_date))
             IN  IF date.y > MAXYEAR THEN Str(raw_date) ELSE IsoDate(date)
        ELSE Str(raw_date)

\* _normalize_record: the county stamp, the lot size and the sale date of the
\* standard record.
_normalize_record(attrs, fm) ==
    [county |-> fm.county_name,
     lot_size_sqft |-> Round1(LotSqft(attrs, fm)),
     last_sale_date |-> SaleDate(attrs, fm)]

\* Raw attribute values a county layer may hold for the lot size.
LotAttributeInputs ==
    { PyNone, PyInt(0), PyInt(1200), PyFloat(Q(3001, 4)), PyFloat(Q(1, 2)),
      PyFloat(Q(123, 1000)), PyFloat(Q(1, 4)), PyFloat(Q(-1, 2)),
      PyStr(<<"1", ",", "2", "0", "0">>), PyStr(<<"n", "/", "a">>), PyStr(<<>>) }

\* Raw attribute values a county layer may hold for the sale date.
SaleDateAttributeInputs ==
    { PyNone, PyStr(<<>>), PyInt(0), PyInt(-86400000), PyInt(86399999),
      PyLong(<<"1","1","3","6","0","7","3","6","0","0","0","0","0">>),
      PyLong(<<"1","1","3","6","0","7","3","5","9","9","9","9","9">>),
      PyLong(<<"1","7","0","9","2","5","1","1","9","9","0","0","0">>),
      PyLong(<<"2","5","3","4","0","2","3","0","0","8","0","0","0","0","0">>),
      PyLong(<<"-","1","1","3","6","0","7","3","6","0","0","0","0","0">>),
      PyStr(<<"0","1","/","1","5","/","2","0","0","0">>),
      PyStr(<<"2","0","0","0","0","1","1","5">>),
      PyStr(<<"1","1","3","6","0","7","3","6","0","0","0","0","0">>) }

RawAttributeInputs ==
    { [lot_size |-> lot, sale_date |-> sale] :
        lot \in LotAttributeInputs, sale \in SaleDateAttributeInputs }

NoAttributes == [lot_size |-> PyNone, sale_date |-> PyNone]

NoRecord == [county |-> <<>>, lot_size_sqft |-> QInt(0), last_sale_date |-> <<>>]

\* One call of _normalize_record.
NormalizeRecord ==
    /\ n_pc = "call"
    /\ n_record' = _normalize_record(n_attrs, n_fm)
    /\ n_pc' = "done"
    /\ UNCHANGED <<n_attrs, n_fm>>

\* ------------------------------------------------------------------------
\* Property lookup: spatial zoning query (retrieval/property.py)
\* ------------------------------------------------------------------------

\* Attribute names probed for the zoning code, in priority order.
ZoneKeys == <<"ZONE", "ZONING", "ZONE_", "ZONE_NAME", "FCODE">>

\* Attribute names probed for the zoning description, in priority order.
ZoneDescKeys == <<"ZONE_DESC", "ZONING_DESC", "SHORT_DESC", "DESCRIPTION", "FNAME">>

\* str(attrs.get(key) or "").strip()
StrippedAttribute(attrs, key) ==
    IF key \in DOMAIN attrs /\ Truthy(attrs[key]) THEN Strip(Str(attrs[key])) ELSE <<>>

RECURSIVE FirstValue(_, _)
\* The first non-empty stripped value among the keys, "" when there is none.
FirstValue(attrs, keys) ==
    IF keys = <<>> THEN <<>>
    ELSE IF StrippedAttribute(attrs, Head(keys)) # <<>>
    THEN StrippedAttribute(attrs, Head(keys))
    ELSE FirstValue(attrs, Tail(keys))

NoZone == [code |-> <<>>, desc |-> <<>>]

\* _spatial_query_zoning on the layer's answer: a failed request and an
\* answer without features both give ("", "").
_spatial_query_zoning(answer) ==
    IF answer.kind # "features" THEN NoZone
    ELSE [code |-> FirstValue(answer.attrs, ZoneKeys),
          desc |-> FirstValue(answer.attrs, ZoneDescKeys)]

\* The zoning layer a county lookup queries first.
PrimaryLayer(county) ==
    CASE county = "Miami-Dade" -> "MDC_MUNICIPAL_ZONING_URL"
      [] county = "Broward" -> "BROWARD_ZONING_URL"
      [] OTHER -> "PBC_ZONING_URL"

\* if not zoning_code or zoning_code.upper() == "NONE"
NeedsFallback(code) == code = <<>> \/ Upper(code) = <<"N", "O", "N", "E">>

\* Values a layer may hold in its zoning code attributes.
ZoneValueInputs ==
    { PyNone, PyStr(<<" ">>), PyStr(<<"N", "O", "N", "E">>),
      PyStr(<<"N", "o", "n", "e">>), PyStr(<<" ", "N", "O", "N", "E", " ">>),
      PyStr(<<"R", "U", "-", "1">>), PyStr(<<" ", "T", "6", "-", "8", " ">>) }

ZoneDescInputs == { PyNone, PyStr(<<"R", "e", "s", "i", "d", "e", "n", "t", "i", "a", "l">>) }

\* Answers of a zoning layer: a failed request, no feature, or a feature.
LayerAnswers ==
    { [kind |-> "error", attrs |-> <<>>], [kind |-> "empty", attrs |-> <<>>] }
    \cup { [kind |-> "features",
            attrs |-> ("ZONE" :> zone) @@ ("ZONING" :> zoning) @@ ("ZONE_DESC" :> desc)] :
             zone \in ZoneValueInputs,
             zoning \in {PyNone, PyStr(<<"N", "O", "N", "E">>), PyStr(<<"B", "-", "2">>)},
             desc \in ZoneDescInputs }

LookupCounties == {"Miami-Dade", "Broward", "Palm Beach"}

\* The county lookup up to its first zoning query: the property query found
\* a parcel or not, and coordinates are known or not.
LookupCall ==
    /\ p_pc = "start"
    /\ IF ~p_found
       THEN /\ p_pc' = "none"
            /\ UNCHANGED <<p_queried, p_zoning>>
       ELSE IF p_coords
       THEN /\ p_queried' = <<PrimaryLayer(p_county)>>
            /\ p_pc' = "zoning"
            /\ UNCHANGED p_zoning
       ELSE /\ p_pc' = "done"
            /\ p_zoning' = NoZone
            /\ UNCHANGED p_queried
    /\ UNCHANGED <<p_county, p_found, p_coords, p_answers>>

\* The awaited zoning query returns; the Miami-Dade lookup then queries the
\* unincorporated layer or the record is built.
ZoningReturns(answer) ==
    /\ p_pc = "zoning"
    /\ p_answers' = Append(p_answers, answer)
    /\ LET zone == _spatial_query_zoning(answer)
       IN  IF /\ p_county = "Miami-Dade" /\ Len(p_queried) = 1
              /\ NeedsFallback(zone.code)
           THEN /\ p_queried' = Append(p_queried, "MDC_UNINCORPORATED_ZONING_URL")
                /\ p_pc' = "zoning"
                /\ UNCHANGED p_zoning
           ELSE /\ p_zoning' = zone
                /\ p_pc' = "done"
                /\ UNCHANGED p_queried
    /\ UNCHANGED <<p_county, p_found, p_coords>>

\* ------------------------------------------------------------------------
\* Session store (api/chat.py, class SessionStore and its callers)
\*
\* A dict keeps its keys in insertion order: _last_access is the sequence of
\* its items [sid, ts].  Of the other four dicts only the key sets matter to
\* eviction, so each is the set of its keys.  The store object is one
\* record, _sessions, and every method is an operator from store to store.
\* ------------------------------------------------------------------------

SESSION_TTL_SECONDS == 3600

\* Capacity of the store: 100 in the source, kept small here so that the
\* capacity is reached.
MAX_SESSIONS == 2

SessionPool == <<"s1", "s2", "s3", "s4">>

\* Session ids that clients send: one more than the store can hold.
SessionIds ==
    {SessionPool[i] : i \in 1..Min2(MAX_SESSIONS + 1, Len(SessionPool))}

\* Chat requests that may be running at the same time.
Requests == {"r1", "r2"}

\* Readings of time.monotonic(): the start, exactly one TTL later (not yet
\* expired) and two TTLs later.
ClockReadings == {0, SESSION_TTL_SECONDS, 2 * SESSION_TTL_SECONDS}

\* SessionStore.__init__
SessionStore ==
    [conversations |-> {}, datasets |-> {}, geocode |-> {}, tokens |-> {},
     last_access |-> <<>>]

Keys(items) == {items[i].sid : i \in DOMAIN items}

\* d[sid] = ts: an existing key keeps its place, a new key goes last.
SetItem(items, sid, ts) ==
    IF sid \in Keys(items)
    THEN [i \in DOMAIN items |->
            IF items[i].sid = sid THEN [sid |-> sid, ts |-> ts] ELSE items[i]]
    ELSE Append(items, [sid |-> sid, ts |-> ts])

\* d.pop(sid, None)
Pop(items, sid) == SelectSeq(items, LAMBDA e : e.sid # sid)

\* An LRU choice that takes the most recently used session.
Oldest_most_recent(items) ==
    items[CHOOSE i \in DOMAIN items :
            /\ \A j \in DOMAIN items : items[j].ts <= items[i].ts
            /\ \A j \in 1..(i - 1) : items[j].ts < items[i].ts].sid

\* min(self._last_access, key=self._last_access.get): the first key, in dict
\* order, whose value is minimal.
Oldest(items) ==
    items[CHOOSE i \in DOMAIN items :
            /\ \A j \in DOMAIN items : items[i].ts <= items[j].ts
            /\ \A j \in 1..(i - 1) : items[j].ts > items[i].ts].sid

\* expired = [sid for sid, ts in items() if now - ts > self._ttl]
Expired(items, t) ==
    SelectSeq(items, LAMBDA e : t - e.ts > SESSION_TTL_SECONDS)

\* while len(self._last_access) > self._max: evict the oldest.  The keys
\* evicted, in order.
RECURSIVE LruEvicted(_)
LruEvicted(items) ==
    IF Len(items) > MAX_SESSIONS
    THEN <<Oldest(items)>> \o LruEvicted(Pop(items, Oldest(items)))
    ELSE <<>>

\* SessionStore._evict
_evict(store, sid) ==
    [conversations |-> store.conversations \ {sid},
     datasets |-> store.datasets \ {sid},
     geocode |-> store.geocode \ {sid},
     tokens |-> store.tokens \ {sid},
     last_access |-> Pop(store.last_access, sid)]

RECURSIVE EvictAll(_, _)
EvictAll(store, sids) ==
    IF sids = <<>> THEN store ELSE EvictAll(_evict(store, Head(sids)), Tail(sids))

\* The keys that SessionStore._gc evicts at clock reading t: the expired
\* ones, then the least recently used ones while the store is over capacity.
GcEvicted(store, t) ==
    LET expired == Expired(store.last_access, t)
        kept == SelectSeq(store.last_access,
                          LAMBDA e : ~(t - e.ts > SESSION_TTL_SECONDS))
    IN  [expired |-> [i \in DOMAIN expired |-> expired[i].sid],
         lru |-> LruEvicted(kept)]

\* SessionStore._gc
_gc(store, t) ==
    LET ev == GcEvicted(store, t)
    IN  EvictAll(store, ev.expired \o ev.lru)

\* SessionStore.touch, before its call of _gc
Touched(store, sid, t) ==
    [store EXCEPT !.last_access = SetItem(@, sid, t)]

\* SessionStore.touch
touch(store, sid, t) == _gc(Touched(store, sid, t), t)

\* SessionStore.get_messages: touch, then setdefault(session_id, []).
get_messages(store, sid, t) ==
    [touch(store, sid, t) EXCEPT !.conversations = @ \cup {sid}]

\* SessionStore.set_dataset
set_dataset(store, sid) == [store EXCEPT !.datasets = @ \cup {sid}]

\* SessionStore.set_geocode
set_geocode(store, sid) == [store EXCEPT !.geocode = @ \cup {sid}]

\* SessionStore.add_tokens
add_tokens(store, sid) == [store EXCEPT !.tokens = @ \cup {sid}]

\* SessionStore.delete_session
delete_session(store, sid) == _evict(store, sid)

\* t_op: when the last operation on the store was a touch, the items of
\* _last_access as they were when its _gc began; otherwise nothing.
NoTouch == <<>>

\* chat(): a request for session sid starts and loads its memory (line 967).
ChatStarts(r, sid) ==
    /\ t_pc[r] = "idle"
    /\ _sessions' = get_messages(_sessions, sid, now)
    /\ t_op' = Touched(_sessions, sid, now).last_access
    /\ t_pc' = [t_pc EXCEPT ![r] = "running"]
    /\ t_sid' = [t_sid EXCEPT ![r] = sid]
    /\ UNCHANGED now

\* chat(): an LLM response has arrived and its tokens are counted (line 1014).
AddTokens(r) ==
    /\ t_pc[r] = "running"
    /\ _sessions' = add_tokens(_sessions, t_sid[r])
    /\ t_op' = NoTouch
    /\ UNCHANGED <<now, t_pc, t_sid>>

\* _execute_geocode: the geocoder has answered and the result is stored.
GeocodeStored(r) ==
    /\ t_pc[r] = "running"
    /\ _sessions' = set_geocode(_sessions, t_sid[r])
    /\ t_op' = NoTouch
    /\ UNCHANGED <<now, t_pc, t_sid>>

\* _execute_search_properties, _execute_filter_dataset: the dataset is stored.
DatasetStored(r) ==
    /\ t_pc[r] = "running"
    /\ _sessions' = set_dataset(_sessions, t_sid[r])
    /\ t_op' = NoTouch
    /\ UNCHANGED <<now, t_pc, t_sid>>

\* chat(): the event generator of the request ends.
ChatEnds(r) ==
    /\ t_pc[r] = "running"
    /\ t_pc' = [t_pc EXCEPT ![r] = "idle"]
    /\ t_sid' = [t_sid EXCEPT ![r] = ""]
    /\ t_op' = NoTouch
    /\ UNCHANGED <<_sessions, now>>

\* DELETE /chat/sessions/{session_id}
ClearSession(sid) ==
    /\ _sessions' = delete_session(_sessions, sid)
    /\ t_op' = NoTouch
    /\ UNCHANGED <<now, t_pc, t_sid>>

\* time.monotonic() moves on.
Tick ==
    /\ now' \in ClockReadings
    /\ now' > now
    /\ t_op' = NoTouch
    /\ UNCHANGED <<_sessions, t_pc, t_sid>>

\* ------------------------------------------------------------------------
\* Chat agent loop (api/chat.py, chat and the dataset tools)
\*
\* Concurrent chat requests on one session id, whose entries stay in the
\* store.  The requests are tasks of one asyncio event loop: a task runs
\* without interruption from one suspension (an await, or a yield of the
\* event stream) to the next.  loop_task is the task that is in the middle
\* of such a run, or "" between runs.  The conversation memory is the length
\* of the stored list.  An LLM response asks for at most one tool.
\* ------------------------------------------------------------------------

MAX_MEMORY_MESSAGES == 50

MAX_AGENT_TURNS == 8

MAX_TOKENS_PER_SESSION == 50000

\* Tokens counted for one LLM response: content_len // 4 + len(message) // 4.
TokenCounts == {0, MAX_TOKENS_PER_SESSION}

\* Numbers of records that a property search may find.
DatasetSizes == {0, 2}

\* What call_llm may hand back to the agent loop: None, a text answer
\* (possibly empty), or a tool call.
ToolNames == {"search_properties", "filter_dataset", "web_search"}

LlmResponses ==
    {[kind |-> "None", content |-> FALSE, tool |-> "", summary_only |-> FALSE,
      tokens |-> 0]}
    \cup {[kind |-> "text", content |-> c, tool |-> "", summary_only |-> FALSE,
           tokens |-> t] : c \in BOOLEAN, t \in TokenCounts}
    \cup {[kind |-> "tool", content |-> FALSE, tool |-> n,
           summary_only |-> FALSE, tokens |-> 0] : n \in ToolNames}
    \cup {[kind |-> "tool", content |-> FALSE, tool |-> "filter_dataset",
           summary_only |-> TRUE, tokens |-> 0]}

\* One running request: its place in chat(), the tool-enabled and tool-less
\* LLM calls it has made, the tool call it is executing, the DatasetInfo it
\* is about to store, and the last event of its stream.
IdleRequest ==
    [pc |-> "idle", turns |-> 0, finals |-> 0, tool |-> "",
     summary_only |-> FALSE, records |-> None, event |-> ""]

\* if len(memory) > MAX_MEMORY_MESSAGES: del memory[:-MAX_MEMORY_MESSAGES]
Trim(len) == IF len > MAX_MEMORY_MESSAGES THEN MAX_MEMORY_MESSAGES ELSE len

\* The stream has ended with this event; the generator is closed.
Finished(req, event) == [req EXCEPT !.pc = "finished", !.event = event]

\* chat(): from the start of the event generator to the token-limit reply or
\* to the first await of call_llm.
RequestStarts(r) ==
    /\ loop_task = ""
    /\ h_req[r].pc = "idle"
    /\ memory' = memory + 1
    /\ IF h_tokens >= MAX_TOKENS_PER_SESSION
       THEN h_req' = [h_req EXCEPT ![r] = Finished(@, "done")]
       ELSE h_req' = [h_req EXCEPT ![r].pc = "llm", ![r].turns = 1,
                                   ![r].event = "session"]
    /\ UNCHANGED <<h_tokens, h_dataset, loop_task>>

\* call_llm(messages, tools=turn_tools) returns: empty response, text answer,
\* or a tool call, which is announced on the stream before it is executed.
LlmReturns(r, response) ==
    /\ loop_task = ""
    /\ h_req[r].pc = "llm"
    /\ response.tokens > 0 => h_tokens < MAX_TOKENS_PER_SESSION
    /\ IF response.kind = "None"
       THEN /\ h_req' = [h_req EXCEPT ![r] = Finished(@, "error")]
            /\ UNCHANGED <<memory, h_tokens>>
       ELSE /\ h_tokens' = h_tokens + response.tokens
            /\ IF response.kind = "text"
               THEN /\ memory' = Trim(IF response.content THEN memory + 1 ELSE memory)
                    /\ h_req' = [h_req EXCEPT ![r] = Finished(@, "done")]
               ELSE /\ memory' = memory
                    /\ h_req' = [h_req EXCEPT ![r].pc = "tool_use",
                                    ![r].tool = response.tool,
                                    ![r].summary_only = response.summary_only,
                                    ![r].event = "tool_use"]
    /\ UNCHANGED <<h_dataset, loop_task>>

\* A filter_dataset that yields to the event loop between reading the
\* dataset and storing the result.
ToolStarts_filter_yields(r) ==
    /\ loop_task = ""
    /\ h_req[r].pc = "tool_use"
    /\ IF h_req[r].tool = "search_properties"
       THEN /\ h_req' = [h_req EXCEPT ![r].pc = "searching"]
            /\ UNCHANGED loop_task
       ELSE IF /\ h_req[r].tool = "filter_dataset"
               /\ h_dataset # None /\ Val(h_dataset) > 0
               /\ ~h_req[r].summary_only
       THEN /\ h_req' = [h_req EXCEPT ![r].pc = "filtering",
                                      ![r].records = h_dataset]
            /\ UNCHANGED loop_task
       ELSE /\ h_req' = [h_req EXCEPT ![r].pc = "tool_result",
                                      ![r].event = "tool_result"]
            /\ UNCHANGED loop_task
    /\ UNCHANGED <<memory, h_tokens, h_dataset>>

\* _execute_tool: the tool call begins.  search_properties awaits the bulk
\* search; filter_dataset reads the stored dataset and goes on without
\* suspending, unless there is nothing to filter or only a summary is asked;
\* any other tool leaves the store alone.
ToolStarts(r) ==
    /\ loop_task = ""
    /\ h_req[r].pc = "tool_use"
    /\ IF h_req[r].tool = "search_properties"
       THEN /\ h_req' = [h_req EXCEPT ![r].pc = "searching"]
            /\ UNCHANGED loop_task
       ELSE IF /\ h_req[r].tool = "filter_dataset"
               /\ h_dataset # None /\ Val(h_dataset) > 0
               /\ ~h_req[r].summary_only
       THEN /\ h_req' = [h_req EXCEPT ![r].pc = "filtering",
                                      ![r].records = h_dataset]
            /\ loop_task' = r
       ELSE /\ h_req' = [h_req EXCEPT ![r].pc = "tool_result",
                                      ![r].event = "tool_result"]
            /\ UNCHANGED loop_task
    /\ UNCHANGED <<memory, h_tokens, h_dataset>>

\* _execute_filter_dataset: filter, sort and limit keep some of the records
\* read, and set_dataset stores them.
FilterWrites(r, kept) ==
    /\ loop_task = r
    /\ h_req[r].pc = "filtering"
    /\ kept <= Val(h_req[r].records)
    /\ h_dataset' = Some(kept)
    /\ h_req' = [h_req EXCEPT ![r].pc = "tool_result", ![r].records = None,
                              ![r].event = "tool_result"]
    /\ loop_task' = ""
    /\ UNCHANGED <<memory, h_tokens>>

\* _execute_filter_dataset raises before it stores (int(limit) of a limit
\* that is no number): chat() reports the error and ends.
FilterRaises(r) ==
    /\ loop_task = r
    /\ h_req[r].pc = "filtering"
    /\ h_req' = [h_req EXCEPT ![r] = Finished([@ EXCEPT !.records = None], "error")]
    /\ loop_task' = ""
    /\ UNCHANGED <<memory, h_tokens, h_dataset>>

\* _execute_search_properties: bulk_property_search has returned n records
\* and the DatasetInfo is built.
SearchReturns(r, n) ==
    /\ loop_task = ""
    /\ h_req[r].pc = "searching"
    /\ h_req' = [h_req EXCEPT ![r].pc = "storing", ![r].records = Some(n)]
    /\ loop_task' = r
    /\ UNCHANGED <<memory, h_tokens, h_dataset>>

\* _execute_search_properties: set_dataset stores the DatasetInfo.
SearchWrites(r) ==
    /\ loop_task = r
    /\ h_req[r].pc = "storing"
    /\ h_dataset' = h_req[r].records
    /\ h_req' = [h_req EXCEPT ![r].pc = "tool_result", ![r].records = None,
                              ![r].event = "tool_result"]
    /\ loop_task' = ""
    /\ UNCHANGED <<memory, h_tokens>>

\* _execute_search_properties: the search raises; the error is the tool's
\* result.
SearchFails(r) ==
    /\ loop_task = ""
    /\ h_req[r].pc = "searching"
    /\ h_req' = [h_req EXCEPT ![r].pc = "tool_result", ![r].event = "tool_result"]
    /\ UNCHANGED <<memory, h_tokens, h_dataset, loop_task>>

\* An agent loop that goes on asking with tools for ever.
NextTurn_unbounded(r) ==
    /\ loop_task = ""
    /\ h_req[r].pc = "tool_result"
    /\ h_req' = [h_req EXCEPT ![r].pc = "llm", ![r].turns = @ + 1,
                              ![r].tool = "", ![r].summary_only = FALSE]
    /\ UNCHANGED <<memory, h_tokens, h_dataset, loop_task>>

\* chat(): the tool result is appended and the loop goes on: the next
\* tool-enabled call_llm, or after MAX_AGENT_TURNS of them the final call
\* without tools.
NextTurn(r) ==
    /\ loop_task = ""
    /\ h_req[r].pc = "tool_result"
    /\ IF h_req[r].turns < MAX_AGENT_TURNS
       THEN h_req' = [h_req EXCEPT ![r].pc = "llm", ![r].turns = @ + 1,
                                   ![r].tool = "", ![r].summary_only = FALSE]
       ELSE h_req' = [h_req EXCEPT ![r].pc = "final", ![r].finals = @ + 1,
                                   ![r].tool = "", ![r].summary_only = FALSE]
    /\ UNCHANGED <<memory, h_tokens, h_dataset, loop_task>>

\* chat(): the final call_llm(messages) returns, with or without content; a
\* text is always sent and remembered.
FinalReturns(r) ==
    /\ loop_task = ""
    /\ h_req[r].pc = "final"
    /\ memory' = memory + 1
    /\ h_req' = [h_req EXCEPT ![r] = Finished(@, "done")]
    /\ UNCHANGED <<h_tokens, h_dataset, loop_task>>

\* chat(): call_llm raises; except Exception reports the error.
LlmRaises(r) ==
    /\ loop_task = ""
    /\ h_req[r].pc \in {"llm", "final"}
    /\ h_req' = [h_req EXCEPT ![r] = Finished(@, "error")]
    /\ UNCHANGED <<memory, h_tokens, h_dataset, loop_task>>

\* ------------------------------------------------------------------------
\* LLM client (retrieval/llm.py): circuit breakers and call_llm
\*
\* Concurrent calls of call_llm are tasks of one event loop; each action runs
\* a call from one await (a POST to a provider, with the back-off sleep that
\* may precede it) to the next, or to its return.
\* ------------------------------------------------------------------------

NVIDIA_MODELS == <<"meta/llama-3.3-70b-instruct", "moonshotai/kimi-k2.5">>

\* call_llm: f"NVIDIA/{model.split('/')[-1]}", the name under which a model's
\* breaker is kept.
NvidiaProvider(model) ==
    CASE model = "meta/llama-3.3-70b-instruct" -> "NVIDIA/llama-3.3-70b-instruct"
      [] model = "moonshotai/kimi-k2.5" -> "NVIDIA/kimi-k2.5"

GeminiProvider == "Gemini"

MAX_RETRIES == 2

\* CircuitBreaker.failure_threshold: 5 in the source, kept small here so that
\* breakers open within few calls.
failure_threshold == 2

reset_seconds == 60

\* CircuitBreaker(), with its dataclass defaults
CircuitBreaker == [failure_count |-> 0, last_failure_time |-> 0, state |-> "closed"]

\* CircuitBreaker.state: reading the property at clock reading t turns an
\* open breaker half-open once reset_seconds have passed.  The breaker after
\* the read.
ReadState(breaker, t) ==
    IF breaker.state = "open" /\ t - breaker.last_failure_time >= reset_seconds
    THEN [breaker EXCEPT !.state = "half_open"]
    ELSE breaker

\* CircuitBreaker.allow_request
allow_request(breaker, t) == ReadState(breaker, t).state \in {"closed", "half_open"}

\* A record_success that leaves the failure count as it is.
record_success_keeps_count(breaker) == [breaker EXCEPT !.state = "closed"]

\* CircuitBreaker.record_success
record_success(breaker) == [breaker EXCEPT !.failure_count = 0, !.state = "closed"]

\* CircuitBreaker.record_failure
record_failure(breaker, t) ==
    [failure_count |-> breaker.failure_count + 1,
     last_failure_time |-> t,
     state |-> IF breaker.failure_count + 1 >= failure_threshold
               THEN "open" ELSE breaker.state]

\* The keys of _breakers.
ProviderNames ==
    {NvidiaProvider(NVIDIA_MODELS[i]) : i \in DOMAIN NVIDIA_MODELS} \cup {GeminiProvider}

\* call_llm: the providers it goes through, by the API keys configured.
Providers(keys) ==
    (IF keys.nvidia
     THEN [i \in DOMAIN NVIDIA_MODELS |-> NvidiaProvider(NVIDIA_MODELS[i])]
     ELSE <<>>)
    \o (IF keys.gemini THEN <<GeminiProvider>> ELSE <<>>)

\* Concurrent calls of call_llm.
Calls == {"c1", "c2"}

\* One call of call_llm: where it is, the provider it is posting to
\* (Providers[i]) and the attempt number, the breaker state it saw on
\* entering _call_provider_raw, what happened at each provider so far, and
\* the provider whose message it returned.
IdleCall ==
    [pc |-> "idle", i |-> 0, attempt |-> 0, seen |-> "", trail |-> <<>>,
     result |-> ""]

\* What one POST may end in: a message, a message that is empty, an error
\* that is retried (status 429 or 5xx, timeout), one that is not (another
\* status, KeyError or IndexError on the body), and any other exception
\* (connection failure, a body that is no JSON, a null in the body).
PostOutcomes == {"message", "empty_message", "retriable", "rejected", "other_error"}

Step(provider, op, breaker, t) ==
    [provider |-> provider, op |-> op, state |-> breaker.state,
     elapsed |-> t - breaker.last_failure_time]

\* call_llm from provider number i on: _call_provider_raw is entered for one
\* provider after the other; a provider whose breaker does not allow the
\* request is skipped at once, and the first one that does gets the POST.
\* When none is left call_llm returns None.
RECURSIVE Consult(_, _, _, _, _, _)
Consult(breakers, call, log, i, ps, t) ==
    IF i > Len(ps)
    THEN [breakers |-> breakers, log |-> log,
          call |-> [call EXCEPT !.pc = "None", !.i = 0, !.attempt = 0, !.seen = ""]]
    ELSE
      LET p == ps[i]
          read == [breakers EXCEPT ![p] = ReadState(@, t)]
      IN  IF allow_request(breakers[p], t)
          THEN [breakers |-> read,
                log |-> Append(log, Step(p, "send", breakers[p], t)),
                call |-> [call EXCEPT !.pc = "post", !.i = i, !.attempt = 0,
                             !.seen = read[p].state,
                             !.trail = Append(@, <<p, "sent">>)]]
          ELSE Consult(read,
                       [call EXCEPT !.trail = Append(@, <<p, "skipped">>)],
                       Append(log, Step(p, "skip", breakers[p], t)),
                       i + 1, ps, t)

\* The trail with the fate of the provider last posted to.
Settled(call, fate) ==
    [call EXCEPT !.trail = [@ EXCEPT ![Len(@)] = <<@[1], fate>>]]

\* call_llm is called.
CallLlm(c) ==
    /\ l_calls[c].pc = "idle"
    /\ LET r == Consult(_breakers, l_calls[c], <<>>, 1, Providers(l_keys), l_now)
       IN  /\ _breakers' = r.breakers
           /\ l_calls' = [l_calls EXCEPT ![c] = r.call]
           /\ l_log' = r.log
    /\ UNCHANGED <<l_now, l_keys, l_streak>>

\* The awaited POST of call c ends.
PostReturns(c, outcome) ==
    /\ l_calls[c].pc = "post"
    /\ LET call == l_calls[c]
           ps == Providers(l_keys)
           p == ps[call.i]
           last == call.attempt = MAX_RETRIES
       IN  IF outcome \in {"message", "empty_message"}
           THEN \* breaker.record_success(); return message
                LET ok == [_breakers EXCEPT ![p] = record_success(@)]
                    log == <<Step(p, "success", _breakers[p], l_now)>>
                    r == Consult(ok, Settled(call, "empty"), log, call.i + 1, ps, l_now)
                IN  /\ l_streak' = [l_streak EXCEPT ![p] = 0]
                    /\ IF outcome = "message"
                       THEN /\ _breakers' = ok
                            /\ l_log' = log
                            /\ l_calls' = [l_calls EXCEPT ![c] =
                                  [Settled(call, "returned") EXCEPT
                                      !.pc = "returned", !.result = p,
                                      !.i = 0, !.attempt = 0, !.seen = ""]]
                       ELSE /\ _breakers' = r.breakers
                            /\ l_log' = r.log
                            /\ l_calls' = [l_calls EXCEPT ![c] = r.call]
           ELSE IF outcome = "retriable" /\ ~last
           THEN \* await asyncio.sleep(delay); the next attempt
                /\ l_calls' = [l_calls EXCEPT ![c].attempt = @ + 1]
                /\ l_log' = <<Step(p, "retry", _breakers[p], l_now)>>
                /\ UNCHANGED <<_breakers, l_streak>>
           ELSE IF outcome = "other_error" /\ ~last
           THEN \* no except clause of the retry loop matches
                /\ l_calls' = [l_calls EXCEPT ![c] =
                      [Settled(call, "raised") EXCEPT
                          !.pc = "raised", !.i = 0, !.attempt = 0, !.seen = ""]]
                /\ l_log' = <<>>
                /\ UNCHANGED <<_breakers, l_streak>>
           ELSE \* breaker.record_failure(); return None
                LET failed == [_breakers EXCEPT ![p] = record_failure(@, l_now)]
                    log == <<Step(p, "failure", _breakers[p], l_now)>>
                    r == Consult(failed, Settled(call, "failed"), log,
                                 call.i + 1, ps, l_now)
                IN  /\ l_streak' = [l_streak EXCEPT ![p] = @ + 1]
                    /\ _breakers' = r.breakers
                    /\ l_log' = r.log
                    /\ l_calls' = [l_calls EXCEPT ![c] = r.call]
    /\ UNCHANGED <<l_now, l_keys>>

\* The caller has taken the outcome of call c.
CallEnds(c) ==
    /\ l_calls[c].pc \in {"returned", "None", "raised"}
    /\ l_calls' = [l_calls EXCEPT ![c] = IdleCall]
    /\ l_log' = <<>>
    /\ UNCHANGED <<_breakers, l_now, l_keys, l_streak>>

\* Readings of time.monotonic(), in steps of half of reset_seconds.
LlmClockReadings == {k * (reset_seconds \div 2) : k \in 0..3}

\* time.monotonic() moves on.
LlmTick ==
    /\ l_now' \in LlmClockReadings
    /\ l_now' > l_now
    /\ l_log' = <<>>
    /\ UNCHANGED <<_breakers, l_keys, l_calls, l_streak>>

\* ------------------------------------------------------------------------
\* Specifications
\* ------------------------------------------------------------------------

vars == <<w_vars, b_vars, c_vars, s_vars, f_vars, n_vars, p_vars, t_vars, h_vars, l_vars>>

WhereIdle == w_pc = "idle" /\ w_params = NoParams /\ w_out = NoWhereResult

BulkIdle ==
    /\ b_pc = "idle" /\ b_params = NoParams /\ b_fm = NoFieldMap
    /\ b_max_results = 0 /\ all_records = <<>> /\ offset = 0 /\ batch_size = 0
    /\ b_requests = <<>> /\ b_pages = <<>> /\ b_failed = 0 /\ b_result = <<>>

CalcIdle == c_pc = "idle" /\ c_in = NoCalcInput /\ c_out = NoAnalysis

SearchIdle ==
    /\ s_pc = "idle" /\ s_store = NoStore /\ s_req = NoRequest
    /\ s_embed = NoEmbedCall /\ s_embedding = "None" /\ s_query = NoQuery
    /\ s_result = <<>>

FilterIdle ==
    f_pc = "idle" /\ f_records = <<>> /\ f_expression = <<>> /\ f_result = <<>>

NormalizeIdle ==
    n_pc = "idle" /\ n_attrs = NoAttributes /\ n_fm = NoFieldMap /\ n_record = NoRecord

LookupIdle ==
    /\ p_pc = "idle" /\ p_county = "" /\ p_found = FALSE /\ p_coords = FALSE
    /\ p_queried = <<>> /\ p_answers = <<>> /\ p_zoning = NoZone

StoreIdle ==
    /\ _sessions = SessionStore /\ now = 0 /\ t_op = NoTouch
    /\ t_pc = [r \in Requests |-> "idle"] /\ t_sid = [r \in Requests |-> ""]

ChatIdle ==
    /\ memory = 0 /\ h_tokens = 0 /\ h_dataset = None /\ loop_task = ""
    /\ h_req = [r \in Requests |-> IdleRequest]

LlmIdle ==
    /\ _breakers = [p \in ProviderNames |-> CircuitBreaker] /\ l_now = 0
    /\ l_keys = [nvidia |-> FALSE, gemini |-> FALSE]
    /\ l_calls = [c \in Calls |-> IdleCall] /\ l_log = <<>>
    /\ l_streak = [p \in ProviderNames |-> 0]

\* build_where_clause returns.
BuildWhereReturns ==
    /\ w_pc = "call"
    /\ build_where_clause(w_params).ok
    /\ w_out' = build_where_clause(w_params)
    /\ w_pc' = "returned"
    /\ UNCHANGED w_params

\* build_where_clause raises ValueError.
BuildWhereRaises ==
    /\ w_pc = "call"
    /\ ~build_where_clause(w_params).ok
    /\ w_out' = build_where_clause(w_params)
    /\ w_pc' = "raised"
    /\ UNCHANGED w_params

WhereInit ==
    /\ w_pc = "call" /\ w_params \in WhereInputs /\ w_out = NoWhereResult
    /\ BulkIdle /\ CalcIdle /\ SearchIdle /\ FilterIdle /\ NormalizeIdle
    /\ LookupIdle /\ StoreIdle
    /\ ChatIdle
    /\ LlmIdle

WhereNext ==
    \/ BuildWhereReturns /\ UNCHANGED <<b_vars, c_vars, s_vars, f_vars, n_vars, p_vars, t_vars, h_vars, l_vars>>
    \/ BuildWhereRaises /\ UNCHANGED <<b_vars, c_vars, s_vars, f_vars, n_vars, p_vars, t_vars, h_vars, l_vars>>

SpecWhere == WhereInit /\ [][WhereNext]_vars

BulkInit ==
    /\ b_pc = "start" /\ b_params \in BulkInputs /\ b_fm = NoFieldMap
    /\ b_max_results = 0 /\ all_records = <<>> /\ offset = 0 /\ batch_size = 0
    /\ b_requests = <<>> /\ b_pages = <<>> /\ b_failed = 0 /\ b_result = <<>>
    /\ WhereIdle /\ CalcIdle /\ SearchIdle /\ FilterIdle /\ NormalizeIdle
    /\ LookupIdle /\ StoreIdle
    /\ ChatIdle
    /\ LlmIdle

BulkNext ==
    \/ BulkCall /\ UNCHANGED <<w_vars, c_vars, s_vars, f_vars, n_vars, p_vars, t_vars, h_vars, l_vars>>
    \/ (\E n \in RowChoices(batch_size) : PageReturns(n))
          /\ UNCHANGED <<w_vars, c_vars, s_vars, f_vars, n_vars, p_vars, t_vars, h_vars, l_vars>>
    \/ PageFails /\ UNCHANGED <<w_vars, c_vars, s_vars, f_vars, n_vars, p_vars, t_vars, h_vars, l_vars>>
    \/ PageCancelled /\ UNCHANGED <<w_vars, c_vars, s_vars, f_vars, n_vars, p_vars, t_vars, h_vars, l_vars>>

SpecBulk == BulkInit /\ [][BulkNext]_vars

CalcInit ==
    /\ c_pc = "call" /\ c_in \in CalcInputs /\ c_out = NoAnalysis
    /\ WhereIdle /\ BulkIdle /\ SearchIdle /\ FilterIdle /\ NormalizeIdle
    /\ LookupIdle /\ StoreIdle
    /\ ChatIdle
    /\ LlmIdle

CalcNext ==
    \/ CalcNoLot /\ UNCHANGED <<w_vars, b_vars, s_vars, f_vars, n_vars, p_vars, t_vars, h_vars, l_vars>>
    \/ CalcInsufficient /\ UNCHANGED <<w_vars, b_vars, s_vars, f_vars, n_vars, p_vars, t_vars, h_vars, l_vars>>
    \/ CalcGoverned /\ UNCHANGED <<w_vars, b_vars, s_vars, f_vars, n_vars, p_vars, t_vars, h_vars, l_vars>>

SpecCalc == CalcInit /\ [][CalcNext]_vars

\* What embed_texts may return: one vector for the one text, or nothing.
EmbedResults == { <<"query_vector">>, <<>> }

SearchInit ==
    /\ s_pc = "call" /\ s_store \in Stores /\ s_req \in SearchRequests
    /\ s_embed = NoEmbedCall /\ s_embedding = "None" /\ s_query = NoQuery
    /\ s_result = <<>>
    /\ WhereIdle /\ BulkIdle /\ CalcIdle /\ FilterIdle /\ NormalizeIdle
    /\ LookupIdle /\ StoreIdle
    /\ ChatIdle
    /\ LlmIdle

SearchNext ==
    \/ HybridSearchCall /\ UNCHANGED <<w_vars, b_vars, c_vars, f_vars, n_vars, p_vars, t_vars, h_vars, l_vars>>
    \/ (\E vectors \in EmbedResults : EmbedReturns(vectors))
          /\ UNCHANGED <<w_vars, b_vars, c_vars, f_vars, n_vars, p_vars, t_vars, h_vars, l_vars>>
    \/ EmbedRaises /\ UNCHANGED <<w_vars, b_vars, c_vars, f_vars, n_vars, p_vars, t_vars, h_vars, l_vars>>
    \/ (\E ro \in RowOrders : HybridRrfReturns(ro))
          /\ UNCHANGED <<w_vars, b_vars, c_vars, f_vars, n_vars, p_vars, t_vars, h_vars, l_vars>>
    \/ (\E ro \in RowOrders : KeywordOnlyReturns(ro))
          /\ UNCHANGED <<w_vars, b_vars, c_vars, f_vars, n_vars, p_vars, t_vars, h_vars, l_vars>>
    \/ SearchQueryRaises /\ UNCHANGED <<w_vars, b_vars, c_vars, f_vars, n_vars, p_vars, t_vars, h_vars, l_vars>>

SpecSearch == SearchInit /\ [][SearchNext]_vars

FilterInit ==
    /\ f_pc = "call" /\ f_records \in FilterRecordInputs
    /\ f_expression \in FilterExpressionInputs /\ f_result = <<>>
    /\ WhereIdle /\ BulkIdle /\ CalcIdle /\ SearchIdle /\ NormalizeIdle
    /\ LookupIdle /\ StoreIdle
    /\ ChatIdle
    /\ LlmIdle

FilterNext ==
    \/ SafeFilterSkips /\ UNCHANGED <<w_vars, b_vars, c_vars, s_vars, n_vars, p_vars, t_vars, h_vars, l_vars>>
    \/ SafeFilterFallsBack /\ UNCHANGED <<w_vars, b_vars, c_vars, s_vars, n_vars, p_vars, t_vars, h_vars, l_vars>>
    \/ SafeFilterApplies /\ UNCHANGED <<w_vars, b_vars, c_vars, s_vars, n_vars, p_vars, t_vars, h_vars, l_vars>>

SpecFilter == FilterInit /\ [][FilterNext]_vars

NormalizeInit ==
    /\ n_pc = "call" /\ n_attrs \in RawAttributeInputs
    /\ n_fm \in {MDC_FIELDS, BROWARD_FIELDS, PBC_FIELDS} /\ n_record = NoRecord
    /\ WhereIdle /\ BulkIdle /\ CalcIdle /\ SearchIdle /\ FilterIdle
    /\ LookupIdle /\ StoreIdle
    /\ ChatIdle
    /\ LlmIdle

NormalizeNext ==
    NormalizeRecord /\ UNCHANGED <<w_vars, b_vars, c_vars, s_vars, f_vars, p_vars, t_vars, h_vars, l_vars>>

SpecNormalize == NormalizeInit /\ [][NormalizeNext]_vars

LookupInit ==
    /\ p_pc = "start" /\ p_county \in LookupCounties /\ p_found \in BOOLEAN
    /\ p_coords \in BOOLEAN /\ p_queried = <<>> /\ p_answers = <<>>
    /\ p_zoning = NoZone
    /\ WhereIdle /\ BulkIdle /\ CalcIdle /\ SearchIdle /\ FilterIdle
    /\ NormalizeIdle
    /\ StoreIdle
    /\ ChatIdle
    /\ LlmIdle

LookupNext ==
    \/ LookupCall /\ UNCHANGED <<w_vars, b_vars, c_vars, s_vars, f_vars, n_vars, t_vars, h_vars, l_vars>>
    \/ (\E answer \in LayerAnswers : ZoningReturns(answer))
          /\ UNCHANGED <<w_vars, b_vars, c_vars, s_vars, f_vars, n_vars, t_vars, h_vars, l_vars>>

SpecLookup == LookupInit /\ [][LookupNext]_vars

StoreInit ==
    /\ StoreIdle
    /\ WhereIdle /\ BulkIdle /\ CalcIdle /\ SearchIdle /\ FilterIdle
    /\ NormalizeIdle /\ LookupIdle
    /\ ChatIdle
    /\ LlmIdle

StoreNext ==
    \/ (\E r \in Requests, sid \in SessionIds : ChatStarts(r, sid))
          /\ UNCHANGED <<w_vars, b_vars, c_vars, s_vars, f_vars, n_vars, p_vars, h_vars, l_vars>>
    \/ (\E r \in Requests : AddTokens(r))
          /\ UNCHANGED <<w_vars, b_vars, c_vars, s_vars, f_vars, n_vars, p_vars, h_vars, l_vars>>
    \/ (\E r \in Requests : GeocodeStored(r))
          /\ UNCHANGED <<w_vars, b_vars, c_vars, s_vars, f_vars, n_vars, p_vars, h_vars, l_vars>>
    \/ (\E r \in Requests : DatasetStored(r))
          /\ UNCHANGED <<w_vars, b_vars, c_vars, s_vars, f_vars, n_vars, p_vars, h_vars, l_vars>>
    \/ (\E r \in Requests : ChatEnds(r))
          /\ UNCHANGED <<w_vars, b_vars, c_vars, s_vars, f_vars, n_vars, p_vars, h_vars, l_vars>>
    \/ (\E sid \in SessionIds : ClearSession(sid))
          /\ UNCHANGED <<w_vars, b_vars, c_vars, s_vars, f_vars, n_vars, p_vars, h_vars, l_vars>>

\* The store with all its writers, at one clock reading.
SpecStore == StoreInit /\ [][StoreNext]_vars

TouchNext ==
    \/ (\E r \in Requests, sid \in SessionIds : ChatStarts(r, sid))
          /\ UNCHANGED <<w_vars, b_vars, c_vars, s_vars, f_vars, n_vars, p_vars, h_vars, l_vars>>
    \/ (\E r \in Requests : ChatEnds(r))
          /\ UNCHANGED <<w_vars, b_vars, c_vars, s_vars, f_vars, n_vars, p_vars, h_vars, l_vars>>
    \/ (\E sid \in SessionIds : ClearSession(sid))
          /\ UNCHANGED <<w_vars, b_vars, c_vars, s_vars, f_vars, n_vars, p_vars, h_vars, l_vars>>
    \/ Tick /\ UNCHANGED <<w_vars, b_vars, c_vars, s_vars, f_vars, n_vars, p_vars, h_vars, l_vars>>

\* The operations that change _last_access, with the clock running.
SpecTouch == StoreInit /\ [][TouchNext]_vars

\* Lengths of the stored conversation when the requests arrive: a new
\* session, and one that earlier requests have filled to the limit or to one
\* message less.
MemoryInputs == {0, MAX_MEMORY_MESSAGES - 1, MAX_MEMORY_MESSAGES}

ChatInit ==
    /\ memory \in MemoryInputs /\ h_tokens = 0 /\ h_dataset = None
    /\ loop_task = "" /\ h_req = [r \in Requests |-> IdleRequest]
    /\ WhereIdle /\ BulkIdle /\ CalcIdle /\ SearchIdle /\ FilterIdle
    /\ NormalizeIdle /\ LookupIdle /\ StoreIdle
    /\ LlmIdle

ChatNext ==
    \/ (\E r \in Requests : RequestStarts(r))
          /\ UNCHANGED <<w_vars, b_vars, c_vars, s_vars, f_vars, n_vars, p_vars, t_vars, l_vars>>
    \/ (\E r \in Requests, response \in LlmResponses : LlmReturns(r, response))
          /\ UNCHANGED <<w_vars, b_vars, c_vars, s_vars, f_vars, n_vars, p_vars, t_vars, l_vars>>
    \/ (\E r \in Requests : ToolStarts(r))
          /\ UNCHANGED <<w_vars, b_vars, c_vars, s_vars, f_vars, n_vars, p_vars, t_vars, l_vars>>
    \/ (\E r \in Requests, kept \in 0..2 : FilterWrites(r, kept))
          /\ UNCHANGED <<w_vars, b_vars, c_vars, s_vars, f_vars, n_vars, p_vars, t_vars, l_vars>>
    \/ (\E r \in Requests : FilterRaises(r))
          /\ UNCHANGED <<w_vars, b_vars, c_vars, s_vars, f_vars, n_vars, p_vars, t_vars, l_vars>>
    \/ (\E r \in Requests, n \in DatasetSizes : SearchReturns(r, n))
          /\ UNCHANGED <<w_vars, b_vars, c_vars, s_vars, f_vars, n_vars, p_vars, t_vars, l_vars>>
    \/ (\E r \in Requests : SearchWrites(r))
          /\ UNCHANGED <<w_vars, b_vars, c_vars, s_vars, f_vars, n_vars, p_vars, t_vars, l_vars>>
    \/ (\E r \in Requests : SearchFails(r))
          /\ UNCHANGED <<w_vars, b_vars, c_vars, s_vars, f_vars, n_vars, p_vars, t_vars, l_vars>>
    \/ (\E r \in Requests : NextTurn(r))
          /\ UNCHANGED <<w_vars, b_vars, c_vars, s_vars, f_vars, n_vars, p_vars, t_vars, l_vars>>
    \/ (\E r \in Requests : FinalReturns(r))
          /\ UNCHANGED <<w_vars, b_vars, c_vars, s_vars, f_vars, n_vars, p_vars, t_vars, l_vars>>
    \/ (\E r \in Requests : LlmRaises(r))
          /\ UNCHANGED <<w_vars, b_vars, c_vars, s_vars, f_vars, n_vars, p_vars, t_vars, l_vars>>

SpecChat == ChatInit /\ [][ChatNext]_vars

\* The other subsystems at rest.
LlmOthersIdle ==
    /\ WhereIdle /\ BulkIdle /\ CalcIdle /\ SearchIdle /\ FilterIdle
    /\ NormalizeIdle /\ LookupIdle /\ StoreIdle /\ ChatIdle

\* One provider (only the Gemini key is configured), concurrent calls, and
\* a clock that moves.
BreakerInit ==
    /\ _breakers = [p \in ProviderNames |-> CircuitBreaker] /\ l_now = 0
    /\ l_keys = [nvidia |-> FALSE, gemini |-> TRUE]
    /\ l_calls = [c \in Calls |-> IdleCall] /\ l_log = <<>>
    /\ l_streak = [p \in ProviderNames |-> 0]
    /\ LlmOthersIdle

BreakerNext ==
    \/ (\E c \in Calls : CallLlm(c))
          /\ UNCHANGED <<w_vars, b_vars, c_vars, s_vars, f_vars, n_vars, p_vars, t_vars, h_vars>>
    \/ (\E c \in Calls, outcome \in PostOutcomes : PostReturns(c, outcome))
          /\ UNCHANGED <<w_vars, b_vars, c_vars, s_vars, f_vars, n_vars, p_vars, t_vars, h_vars>>
    \/ (\E c \in Calls : CallEnds(c))
          /\ UNCHANGED <<w_vars, b_vars, c_vars, s_vars, f_vars, n_vars, p_vars, t_vars, h_vars>>
    \/ LlmTick
          /\ UNCHANGED <<w_vars, b_vars, c_vars, s_vars, f_vars, n_vars, p_vars, t_vars, h_vars>>

SpecBreaker == BreakerInit /\ [][BreakerNext]_vars

\* Every configuration of API keys, concurrent calls, and all calls made
\* within one reading of the clock.
LlmInit ==
    /\ _breakers = [p \in ProviderNames |-> CircuitBreaker] /\ l_now = 0
    /\ l_keys \in [nvidia : BOOLEAN, gemini : BOOLEAN]
    /\ l_calls = [c \in Calls |-> IdleCall] /\ l_log = <<>>
    /\ l_streak = [p \in ProviderNames |-> 0]
    /\ LlmOthersIdle

LlmNext ==
    \/ (\E c \in Calls : CallLlm(c))
          /\ UNCHANGED <<w_vars, b_vars, c_vars, s_vars, f_vars, n_vars, p_vars, t_vars, h_vars>>
    \/ (\E c \in Calls, outcome \in PostOutcomes : PostReturns(c, outcome))
          /\ UNCHANGED <<w_vars, b_vars, c_vars, s_vars, f_vars, n_vars, p_vars, t_vars, h_vars>>
    \/ (\E c \in Calls : CallEnds(c))
          /\ UNCHANGED <<w_vars, b_vars, c_vars, s_vars, f_vars, n_vars, p_vars, t_vars, h_vars>>

SpecLlm == LlmInit /\ [][LlmNext]_vars

Init == WhereInit

Next == WhereNext

Spec == SpecWhere

\* ------------------------------------------------------------------------
\* Claims
\* ------------------------------------------------------------------------

RECURSIVE PagesUpTo(_, _, _)
\* The normalized records of pages 1..k of a search, in arrival order.
PagesUpTo(pages, k, fm) ==
    IF k = 0 THEN <<>>
    ELSE PagesUpTo(pages, k - 1, fm)
         \o [i \in 1..pages[k] |-> NormalizeFeature(ServerFeature(k, i), fm)]

\* C1: if the query for page k fails, bulk_property_search raises nothing and
\* returns exactly the normalized records of pages 1..k-1 in the order they
\* were received (the empty list when k = 1).
C1_PartialOnFailure ==
    b_failed > 0 =>
        /\ b_pc = "done"
        /\ Len(b_pages) = b_failed - 1
        /\ b_result = PagesUpTo(b_pages, b_failed - 1, b_fm)

C1_Witness ==
    b_pc = "done" /\ b_failed = 2 /\ Len(b_result) = PageSize

\* C2: whatever the server answers (any number of rows per page, more rows
\* than requested, unlimited data), bulk_property_search returns at most
\* min(params.max_results, 2000) records.
C2_ResultCap ==
    /\ Len(all_records) <= Max2(Min2(b_params.max_results, HardCap), 0)
    /\ b_pc = "done" => Len(b_result) <= Min2(b_params.max_results, HardCap)

RECURSIVE SumSeq(_)
SumSeq(s) == IF s = <<>> THEN 0 ELSE Head(s) + SumSeq(Tail(s))

C2_Witness ==
    /\ b_pc = "done" /\ b_failed = 0
    /\ Len(b_result) = HardCap
    /\ SumSeq(b_pages) > HardCap

\* C3: whenever at least one constraint is evaluated, exactly one
\* ConstraintResult of the returned list has is_governing = TRUE, that
\* constraint's max_units is the minimum over all evaluated constraints, and
\* the analysis's max_units and governing_constraint are that constraint's
\* max_units and name.
C3_ExactlyOneGoverning ==
    (c_pc = "returned" /\ c_out.constraints # <<>>) =>
        LET cs == c_out.constraints
            gov == {i \in DOMAIN cs : cs[i].is_governing}
        IN  /\ Cardinality(gov) = 1
            /\ \A i \in gov :
                  /\ \A j \in DOMAIN cs : cs[i].max_units <= cs[j].max_units
                  /\ c_out.max_units = cs[i].max_units
                  /\ c_out.governing_constraint = cs[i].name

C3_Witness ==
    /\ c_pc = "returned"
    /\ Len(c_out.constraints) = 4
    /\ c_out.governing_constraint = "density"
    /\ \E i \in DOMAIN c_out.constraints :
          c_out.constraints[i].max_units > c_out.max_units

\* C6: when no embedding is supplied and the embedding provider fails (it
\* raises, or returns no vector), hybrid_search does not fail because of it:
\* it runs the lexical-only query with the same municipality filter, query
\* and limit, and returns that query's results.
C6_EmbeddingFailureDegrades ==
    s_embed.outcome \in {"raised", "empty"} =>
        /\ s_pc \in {"query", "returned", "raised"}
        /\ s_pc \in {"returned", "raised"} =>
              s_query = [mode |-> "keyword_only", municipality |-> s_req.municipality,
                         query |-> s_req.zone_code, limit |-> s_req.limit]
        /\ s_pc = "returned" =>
              \E ro \in RowOrders :
                  s_result = _keyword_only(s_store, s_req.municipality,
                                           s_req.zone_code, s_req.limit, ro)

C6_Witness ==
    /\ s_pc = "returned"
    /\ s_embed.outcome = "raised"
    /\ s_embed.input_type = "query"
    /\ s_result # <<>>

\* Does chunk c pass the municipality filter of the request?
InMunicipality(c) ==
    LET name == Lower(s_req.municipality)
        m == Lower(s_store[c].municipality)
    IN  \E k \in 0..(Len(m) - Len(name)) : SubSeq(m, k + 1, k + Len(name)) = name

\* Rank (from 1) of chunk c in the vector branch, 0 when it is not in the
\* pool; inside is the set of chunks that pass the municipality filter.
VectorRank(c, inside) ==
    IF c \in inside /\ s_store[c].has_embedding
    THEN LET r == 1 + Cardinality({d \in inside :
                        /\ s_store[d].has_embedding
                        /\ s_store[d].distance < s_store[c].distance})
         IN  IF r <= 3 * s_req.limit THEN r ELSE 0
    ELSE 0

\* Rank (from 1) of chunk c in the lexical branch under row order ro, 0 when
\* it is not in the pool.
LexicalRank(c, ro, inside) ==
    LET eligible(d) ==
            /\ d \in inside
            /\ (s_store[d].ts_match \/ s_req.zone_code \in s_store[d].zone_codes)
    IN  IF eligible(c)
        THEN LET r == 1 + Cardinality({d \in inside :
                            /\ eligible(d)
                            /\ \/ s_store[d].ts_rank > s_store[c].ts_rank
                               \/ /\ s_store[d].ts_rank = s_store[c].ts_rank
                                  /\ Position(ro, d) < Position(ro, c)})
             IN  IF r <= 3 * s_req.limit THEN r ELSE 0
        ELSE 0

\* score = 1/(60 + vr) + 1/(60 + kr), an absent rank (0) contributing 0.
IsRrfScore(score, vr, kr) ==
    LET tv == IF vr = 0 THEN [n |-> 0, d |-> 1] ELSE [n |-> 1, d |-> 60 + vr]
        tk == IF kr = 0 THEN [n |-> 0, d |-> 1] ELSE [n |-> 1, d |-> 60 + kr]
    IN  score.n * tv.d * tk.d = score.d * (tv.n * tk.d + tk.n * tv.d)

\* C7: in fused mode the score of every returned candidate equals
\* 1/(60 + vectorRank) + 1/(60 + lexicalRank), ranks starting at 1 within
\* each branch's pool and an absent branch contributing exactly 0; a
\* candidate ranked 1st in both branches scores 2/61 and one ranked 1st
\* lexically but absent from the vector pool scores 1/61.
C7_RrfScore ==
    (s_pc = "returned" /\ s_query.mode = "hybrid_rrf") =>
        \E inside \in {{c \in ChunkIds : InMunicipality(c)}}, ro \in RowOrders :
            \A i \in DOMAIN s_result :
                LET c == s_result[i].chunk
                    vr == VectorRank(c, inside)
                    kr == LexicalRank(c, ro, inside)
                IN  /\ vr + kr > 0
                    /\ IsRrfScore(s_result[i].score, vr, kr)
                    /\ (vr = 1 /\ kr = 1) => s_result[i].score = [n |-> 2, d |-> 61]
                    /\ (vr = 0 /\ kr = 1) => s_result[i].score = [n |-> 1, d |-> 61]

C7_Witness ==
    /\ s_pc = "returned" /\ s_query.mode = "hybrid_rrf"
    /\ Len(s_result) = 2
    /\ s_result[1].score = [n |-> 2, d |-> 61]
    /\ ~s_store[s_result[2].chunk].has_embedding
    /\ s_result[2].score = [n |-> 1, d |-> 62]

\* C8 as stated: every result of hybrid_search, in fused and in degraded
\* mode, belongs to the requested municipality.
C8_SameMunicipality ==
    s_pc = "returned" =>
        \A i \in DOMAIN s_result :
            Lower(s_result[i].municipality) = Lower(s_req.municipality)

\* C8 amended: in fused and in degraded mode the municipality of every
\* result contains the requested name as a case-insensitive substring; the
\* filter is never relaxed, even when fewer than limit chunks match.
C8_MunicipalityFilter ==
    s_pc = "returned" =>
        /\ \A i \in DOMAIN s_result : InMunicipality(s_result[i].chunk)
        /\ \A i \in DOMAIN s_result :
              s_result[i].municipality = s_store[s_result[i].chunk].municipality

C8_Witness ==
    /\ s_pc = "returned" /\ s_query.mode = "keyword_only"
    /\ s_req.limit = 2 /\ Len(s_result) = 1
    /\ \E c \in ChunkIds : s_store[c].ts_match /\ ~InMunicipality(c)

\* C4: for each supported county and each of the seven land-use categories,
\* build_where_clause emits a condition on that county's land-use field with
\* exactly that county's table codes: an equality for one code, an IN list
\* for several.
C4_LandUseCondition ==
    (w_pc = "returned" /\ w_params.land_use_type \in LandUseCategories) =>
        LET fm == w_out.fm
            codes == LAND_USE_CODES[Lower(fm.county_name)][w_params.land_use_type]
        IN  \E i \in DOMAIN w_out.where :
                /\ w_out.where[i].field = fm.land_use_code
                /\ w_out.where[i].codes = codes
                /\ w_out.where[i].fmt = IF Len(codes) = 1 THEN "quoted" ELSE "in"
                /\ w_out.where[i].op = IF Len(codes) = 1 THEN "=" ELSE "IN"

SupportedFieldMaps == {MDC_FIELDS, BROWARD_FIELDS, PBC_FIELDS}

NamesAllSupported(error) ==
    \A fm \in SupportedFieldMaps :
        \E i \in DOMAIN error.supported : error.supported[i] = fm.county_name

\* A string with its hyphens removed.
WithoutHyphens(s) == SelectSeq(s, LAMBDA c : c # "-")

\* C5 as stated: a field map is resolved if and only if params.county equals
\* a supported name compared case-insensitively and ignoring hyphens; every
\* other value fails with an error naming all three supported counties.
C5_IgnoringHyphens ==
    w_pc \in {"returned", "raised"} =>
        LET match == {fm \in SupportedFieldMaps :
                        WithoutHyphens(Lower(fm.county_name))
                          = WithoutHyphens(Lower(w_params.county))}
        IN  IF match # {}
            THEN w_pc = "returned" /\ w_out.fm \in match
            ELSE w_pc = "raised" /\ NamesAllSupported(w_out.error)

\* The spellings of a supported county that are accepted.
Accepted(fm, county) ==
    Strip(Lower(county)) \in
        {Lower(fm.county_name), Replace(Lower(fm.county_name), "-", " ")}

\* C5 amended: a field map is resolved if and only if params.county, in
\* lower case and without surrounding whitespace, is a supported name or a
\* supported name with its hyphen written as a space; every other value
\* fails with an error naming all three supported counties.
C5_CountyResolution ==
    w_pc \in {"returned", "raised"} =>
        LET match == {fm \in SupportedFieldMaps : Accepted(fm, w_params.county)}
        IN  IF match # {}
            THEN w_pc = "returned" /\ w_out.fm \in match
            ELSE w_pc = "raised" /\ NamesAllSupported(w_out.error)

C5_Witness ==
    /\ w_pc = "returned"
    /\ w_params.county = <<"m","i","a","m","i"," ","d","a","d","e">>
    /\ w_out.fm = MDC_FIELDS

\* The characters comparison operators are written with.
OperatorChars == {"=", "!", "<", ">", "~"}

RECURSIVE OperatorRun(_)
OperatorRun(s) ==
    IF s # <<>> /\ Head(s) \in OperatorChars THEN 1 + OperatorRun(Tail(s)) ELSE 0

\* What follows the field name of a clause.
AfterField(clause) ==
    Drop(Drop(clause, WordRun(clause)), SpaceRun(Drop(clause, WordRun(clause))))

\* The operator a clause is written with: the whole run of operator
\* characters, or else the whole word, that follows the field name.
WrittenOperator(clause) ==
    IF OperatorRun(AfterField(clause)) > 0
    THEN SubSeq(AfterField(clause), 1, OperatorRun(AfterField(clause)))
    ELSE SubSeq(AfterField(clause), 1, WordRun(AfterField(clause)))

\* A clause is well formed when it reads <field> <operator> <value> with
\* one of the seven operators.
WellFormed(clause) ==
    /\ WordRun(clause) > 0
    /\ \E j \in DOMAIN FilterOperators :
          Lower(WrittenOperator(clause)) = FilterOperators[j]
    /\ Strip(Drop(AfterField(clause), Len(WrittenOperator(clause)))) # <<>>

\* C9: for any expression in which some clause is unparseable or uses an
\* operator outside {==, !=, >, <, >=, <=, contains}, _safe_filter returns
\* the complete input record list unchanged, even when other clauses of the
\* expression are valid.
C9_InvalidReturnsAll ==
    (/\ f_pc = "returned"
     /\ f_expression # <<>>
     /\ \E i \in DOMAIN Clauses(f_expression) :
           ~WellFormed(Strip(Clauses(f_expression)[i])))
        => f_result = f_records

\* Two str compared without regard to case.
StrHolds(op, a, b) ==
    CASE op = <<"=", "=">> -> a = b
      [] op = <<"!", "=">> -> a # b
      [] op = <<"<">> -> StrLess(a, b)
      [] op = <<">">> -> StrLess(b, a)
      [] op = <<"<", "=">> -> a = b \/ StrLess(a, b)
      [] op = <<">", "=">> -> a = b \/ StrLess(b, a)
      [] OTHER -> Contains(a, b)

\* Two numbers compared by value; contains looks at their printed forms.
NumberHolds(op, x, y) ==
    CASE op = <<"=", "=">> -> x.q.n * y.q.d = y.q.n * x.q.d
      [] op = <<"!", "=">> -> x.q.n * y.q.d # y.q.n * x.q.d
      [] op = <<"<">> -> x.q.n * y.q.d < y.q.n * x.q.d
      [] op = <<">">> -> x.q.n * y.q.d > y.q.n * x.q.d
      [] op = <<"<", "=">> -> x.q.n * y.q.d <= y.q.n * x.q.d
      [] op = <<">", "=">> -> x.q.n * y.q.d >= y.q.n * x.q.d
      [] OTHER -> Contains(Str(x), Str(y))

\* A number against a str: they differ, have no order, and contains looks at
\* their printed forms.
MixedHolds(op, x, y) ==
    CASE op = <<"!", "=">> -> TRUE
      [] op = <<"c", "o", "n", "t", "a", "i", "n", "s">> ->
            Contains(Lower(Str(x)), Lower(Str(y)))
      [] OTHER -> FALSE

\* Does the record satisfy the clause <field> <operator> <value>?
Satisfies(record, filter) ==
    /\ filter.field_name \in DOMAIN record
    /\ record[filter.field_name].t # "None"
    /\ LET held == record[filter.field_name]
           op == Lower(filter.operator)
       IN  IF held.t = "str" /\ filter.value.t = "str"
           THEN StrHolds(op, Lower(held.s), Lower(filter.value.s))
           ELSE IF held.t # "str" /\ filter.value.t # "str"
           THEN NumberHolds(op, held, filter.value)
           ELSE MixedHolds(op, held, filter.value)

\* Does the record lack, or hold None for, the field of some clause?
LacksField(record, filters) ==
    \E i \in DOMAIN filters :
        \/ filters[i].field_name \notin DOMAIN record
        \/ record[filters[i].field_name].t = "None"

SourceLotSize(val) ==
    IF val.t \in {"int", "float"} THEN val.q ELSE _safe_float(val)

\* r is x rounded to one decimal place (a tie going to the even tenth).
IsNearestTenth(r, x) ==
    LET off == Abs(r.n * x.d - x.n * r.d) * 20
        unit == r.d * x.d
    IN  /\ 10 % r.d = 0
        /\ off <= unit
        /\ off = unit => ((r.n * 10) \div r.d) % 2 = 0

\* C11 (as stated): lot_size_sqft is the source acres times 43,560 for the
\* county that stores acres, the source value unchanged for the county that
\* stores square feet, and 0 for a county with no lot-size field.
C11_SquareFeet ==
    (n_pc = "done" /\ n_attrs.lot_size.t \in {"int", "float"}) =>
        LET source == n_attrs.lot_size.q
        IN  CASE n_fm.lot_size = "" -> n_record.lot_size_sqft = QInt(0)
              [] n_fm.lot_size # "" /\ n_fm.lot_size_unit = "acres" ->
                    n_record.lot_size_sqft = QMul(source, QInt(43560))
              [] OTHER -> n_record.lot_size_sqft = source

\* C11 (amended): lot_size_sqft is rounded to one decimal place: for the
\* county that stores acres it is the rounded product of a positive source
\* value and 43,560 (0.5 acres gives 21,780) and the rounded source value
\* itself when that is not positive, for the county that stores square feet
\* it is the rounded source value, and for a county with no lot-size field
\* it is 0.
C11_SquareFeetRounded ==
    n_pc = "done" =>
        LET source == SourceLotSize(n_attrs.lot_size)
            acres == n_fm.lot_size_unit = "acres"
        IN  /\ n_fm.lot_size = "" => n_record.lot_size_sqft = QInt(0)
            /\ (n_fm.lot_size # "" /\ acres /\ source.n > 0) =>
                  IsNearestTenth(n_record.lot_size_sqft,
                                 Q(source.n * 43560, source.d))
            /\ (n_fm.lot_size # "" /\ ~(acres /\ source.n > 0)) =>
                  IsNearestTenth(n_record.lot_size_sqft, source)
            /\ (acres /\ n_attrs.lot_size = PyFloat(Q(1, 2))) =>
                  n_record.lot_size_sqft = QInt(21780)

\* An acre value whose product with 43,560 has more than one decimal has been
\* normalized.
C11_Witness ==
    /\ n_pc = "done"
    /\ n_fm = PBC_FIELDS
    /\ n_attrs.lot_size = PyFloat(Q(123, 1000))
    /\ n_record.lot_size_sqft = Q(53579, 10)

DaysInMonth(y, m) ==
    IF m = 2
    THEN (IF (y % 4 = 0 /\ y % 100 # 0) \/ y % 400 = 0 THEN 29 ELSE 28)
    ELSE IF m \in {4, 6, 9, 11} THEN 30 ELSE 31

\* s is a calendar date written YYYY-MM-DD.
IsIsoDate(s) ==
    /\ Len(s) = 10
    /\ s[5] = "-" /\ s[8] = "-"
    /\ \A i \in {1, 2, 3, 4, 6, 7, 9, 10} : IsDigit(s[i])
    /\ LET y == DigitsValue(SubSeq(s, 1, 4))
           m == DigitsValue(SubSeq(s, 6, 7))
           d == DigitsValue(SubSeq(s, 9, 10))
       IN  m \in 1..12 /\ d \in 1..DaysInMonth(y, m)

\* C12: the normalized last_sale_date is either the empty string or an
\* ISO-8601 date string, for every raw record of every county.
C12_IsoOrEmpty ==
    n_pc = "done" =>
        \/ n_record.last_sale_date = <<>>
        \/ IsIsoDate(n_record.last_sale_date)

\* Some stop condition of the page loop has happened: the accumulated count
\* has reached the effective cap, a page returned fewer rows than were
\* requested for it, or a page query failed.
MustStop ==
    \/ Len(all_records) >= Min2(b_params.max_results, HardCap)
    \/ \E k \in DOMAIN b_pages : b_pages[k] < b_requests[k].resultRecordCount
    \/ b_failed > 0

\* C13: a bulk search issues no further page request once the accumulated
\* count has reached the effective cap, a page has returned fewer rows than
\* requested (zero included) or a page query has failed, and in every other
\* state it issues the next page: a request is in flight exactly when none of
\* the three has happened, and every request issued is answered or in flight.
C13_StopConditions ==
    b_pc \in {"await", "done"} =>
        /\ b_pc = "done" <=> MustStop
        /\ b_pc = "await" => Len(b_requests) = Len(b_pages) + 1
        /\ b_pc = "done" =>
              Len(b_requests) = Len(b_pages) + (IF b_failed > 0 THEN 1 ELSE 0)

\* A search that went on after a page with more rows than requested and ended
\* on a short page below the cap.
C13_Witness ==
    /\ b_pc = "done" /\ b_failed = 0
    /\ Len(all_records) < Min2(b_params.max_results, HardCap)
    /\ Len(b_pages) = 2
    /\ b_pages[1] > b_requests[1].resultRecordCount
    /\ b_pages[2] \in 1..(b_requests[2].resultRecordCount - 1)

\* C14: when the caller cancels a bulk search while a later page request is in
\* flight, the records of the pages already completed are surfaced to the
\* caller.
C14_CancelSurfacesPages ==
    b_pc = "cancelled" => b_result = all_records

\* x is supplied and greater than 0.
Given(x) == x # None /\ Val(x).n > 0

\* The value of a setback in the envelope formula.
Setback(x) == IF x = None THEN QInt(0) ELSE Val(x)

\* The formula value of the constraint called name for the call c_in, the
\* buildable area being the one the analysis reports.
FormulaValue(name) ==
    LET p == c_in.params
        stories == IF p.max_stories = None THEN 1 ELSE Max2(Val(p.max_stories), 1)
    IN  CASE name = "density" ->
               Q(Val(p.max_density_units_per_acre).n * c_in.lot.n,
                 Val(p.max_density_units_per_acre).d * c_in.lot.d * 43560)
          [] name = "min_lot_area" ->
               QDiv(c_in.lot, Val(p.min_lot_area_per_unit_sqft))
          [] name = "floor_area_ratio" ->
               QDiv(QMul(Val(p.far), c_in.lot), Val(p.min_unit_size_sqft))
          [] name = "buildable_envelope" ->
               QDiv(QMul(Val(c_out.buildable_area_sqft), QInt(stories)),
                    Val(p.min_unit_size_sqft))

\* C15: every evaluated constraint's max_units equals max(1, floor(raw)),
\* where raw is that constraint's formula value, so no evaluated constraint
\* reports fewer than 1 unit.
C15_FlooredAndClamped ==
    c_pc = "returned" =>
        \A i \in DOMAIN c_out.constraints :
            LET c == c_out.constraints[i]
                raw == FormulaValue(c.name)
            IN  /\ c.raw_value = raw
                /\ c.max_units = (IF raw.n < raw.d THEN 1 ELSE raw.n \div raw.d)
                /\ c.max_units >= 1

\* A constraint whose formula value is below 1 has been evaluated together
\* with one whose value is floored.
C15_Witness ==
    /\ c_pc = "returned"
    /\ \E i, j \in DOMAIN c_out.constraints :
          /\ c_out.constraints[i].raw_value.n < c_out.constraints[i].raw_value.d
          /\ c_out.constraints[i].max_units = 1
          /\ c_out.constraints[j].raw_value.d > 1
          /\ c_out.constraints[j].max_units > 1

\* Buildable width and depth of the call c_in.
BuildableWidth ==
    QSub(Val(c_in.dims[1]), QMul(QInt(2), Setback(c_in.params.setback_side_ft)))

BuildableDepth ==
    QSub(QSub(Val(c_in.dims[2]), Setback(c_in.params.setback_front_ft)),
         Setback(c_in.params.setback_rear_ft))

\* Some constraint of the call c_in can be evaluated.
Evaluable ==
    LET p == c_in.params
    IN  \/ Given(p.max_density_units_per_acre)
        \/ Given(p.min_lot_area_per_unit_sqft)
        \/ Given(p.far) /\ Given(p.min_unit_size_sqft)
        \/ /\ Given(c_in.dims[1]) /\ Given(c_in.dims[2])
           /\ BuildableWidth.n > 0 /\ BuildableDepth.n > 0
           /\ Given(p.min_unit_size_sqft)

\* C16: calculate_max_units returns max_units = 0 exactly in the two sentinel
\* outcomes: lot size <= 0 gives no_lot_data with no constraints
\* whatever the params; lot size > 0 with no evaluable constraint gives
\* insufficient_data with no constraints and at least one note; every other
\* call gives max_units >= 1.
C16_Sentinels ==
    c_pc = "returned" =>
        /\ c_in.lot.n <= 0 =>
              /\ c_out.max_units = 0
              /\ c_out.governing_constraint = "no_lot_data"
              /\ c_out.constraints = <<>>
        /\ (c_in.lot.n > 0 /\ ~Evaluable) =>
              /\ c_out.max_units = 0
              /\ c_out.governing_constraint = "insufficient_data"
              /\ c_out.constraints = <<>>
              /\ c_out.notes # <<>>
        /\ (c_in.lot.n > 0 /\ Evaluable) =>
              /\ c_out.max_units >= 1
              /\ c_out.governing_constraint \notin {"no_lot_data", "insufficient_data"}

\* A positive lot with non-positive params and setbacks that exceed the lot
\* has come out as insufficient_data.
C16_Witness ==
    /\ c_pc = "returned"
    /\ c_in.lot.n > 0
    /\ c_in.params.max_density_units_per_acre = Some(QInt(0))
    /\ c_in.params.min_lot_area_per_unit_sqft = Some(QInt(-1))
    /\ c_out.governing_constraint = "insufficient_data"
    /\ Len(c_out.notes) = 2

\* The analysis of the call c_in made without lot dimensions.
WithoutEnvelope == calculate_max_units(c_in.lot, c_in.params, None, None)

\* The envelope is left out, and the rest is as if it had not been requested.
EnvelopeSkipped ==
    /\ \A i \in DOMAIN c_out.constraints :
          c_out.constraints[i].name # "buildable_envelope"
    /\ c_out.constraints = WithoutEnvelope.constraints
    /\ c_out.max_units = WithoutEnvelope.max_units
    /\ c_out.governing_constraint = WithoutEnvelope.governing_constraint
    /\ c_out.confidence = WithoutEnvelope.confidence

HasSetbackNote == \E i \in DOMAIN c_out.notes : c_out.notes[i] = SetbackNote

\* C17 (as stated): when lot width and depth are supplied but width minus
\* twice the side setback is <= 0, or depth minus front and rear setbacks is
\* <= 0, there is no buildable_envelope constraint, an explanatory note is
\* appended, and the other constraints are evaluated and governed as if the
\* envelope had not been requested.
C17_SetbacksExceedLot ==
    (/\ c_pc = "returned"
     /\ c_in.dims[1] # None /\ c_in.dims[2] # None
     /\ (BuildableWidth.n <= 0 \/ BuildableDepth.n <= 0)) =>
        EnvelopeSkipped /\ c_out.notes # <<>>

\* C17 (amended): when the lot size is positive and a positive lot width and
\* depth are supplied but width minus twice the side setback is <= 0, or
\* depth minus front and rear setbacks is <= 0, there is no
\* buildable_envelope constraint, the buildable area is reported as 0, a note
\* on the setbacks is appended, and the other constraints are evaluated and
\* governed as if the envelope had not been requested; when the lot size or a
\* supplied dimension is <= 0 the envelope is left out in the same way but
\* without that note.
C17_PositiveDimensions ==
    (/\ c_pc = "returned"
     /\ c_in.dims[1] # None /\ c_in.dims[2] # None
     /\ (BuildableWidth.n <= 0 \/ BuildableDepth.n <= 0)) =>
        /\ EnvelopeSkipped
        /\ HasSetbackNote <=>
              (c_in.lot.n > 0 /\ Given(c_in.dims[1]) /\ Given(c_in.dims[2]))
        /\ HasSetbackNote => c_out.buildable_area_sqft = Some(QInt(0))

\* Setbacks that exceed a 75 x 100 lot, with other constraints evaluated.
C17_Witness ==
    /\ c_pc = "returned"
    /\ c_in.dims = <<Some(QInt(75)), Some(QInt(100))>>
    /\ c_in.params.setback_side_ft = Some(QInt(40))
    /\ c_in.params.min_unit_size_sqft = Some(QInt(750))
    /\ HasSetbackNote
    /\ Len(c_out.constraints) >= 2

\* x with a value <= 0 left out.
Absent(x) == IF x # None /\ Val(x).n <= 0 THEN None ELSE x

\* The params of the call c_in with every value <= 0 left absent.
PositiveParams ==
    LET p == c_in.params
    IN  [max_density_units_per_acre |-> Absent(p.max_density_units_per_acre),
         min_lot_area_per_unit_sqft |-> Absent(p.min_lot_area_per_unit_sqft),
         far |-> Absent(p.far),
         max_stories |-> IF p.max_stories # None /\ Val(p.max_stories) <= 0
                         THEN None ELSE p.max_stories,
         setback_front_ft |-> Absent(p.setback_front_ft),
         setback_side_ft |-> Absent(p.setback_side_ft),
         setback_rear_ft |-> Absent(p.setback_rear_ft),
         min_unit_size_sqft |-> Absent(p.min_unit_size_sqft)]

\* C18: for every field of NumericZoningParams, supplying a value <= 0 yields
\* the same DensityAnalysis as leaving that field absent.
C18_NonPositiveIsAbsent ==
    c_pc = "returned" =>
        c_out = calculate_max_units(c_in.lot, PositiveParams, c_in.dims[1], c_in.dims[2])

\* C19: the confidence is low when exactly 1 constraint was evaluated, medium
\* when exactly 2 were, and high when 3 or 4 were.
C19_ConfidenceLadder ==
    (c_pc = "returned" /\ c_out.constraints # <<>>) =>
        /\ Len(c_out.constraints) \in 1..4
        /\ c_out.confidence =
              (CASE Len(c_out.constraints) = 1 -> "low"
                 [] Len(c_out.constraints) = 2 -> "medium"
                 [] OTHER -> "high")

\* All four constraints have been evaluated.
C19_Witness ==
    /\ c_pc = "returned"
    /\ Len(c_out.constraints) = 4
    /\ c_out.confidence = "high"

\* A layer's answer carries no zone: it has no zoning code, or its code is
\* the literal NONE in any letter case, or only whitespace.
NoZoneFound(answer) ==
    LET code == _spatial_query_zoning(answer).code
    IN  Strip(code) = <<>> \/ Upper(code) = <<"N", "O", "N", "E">>

\* C20: a zoning layer's answer NONE (in any letter case) or whitespace is
\* treated as no zone found: it is never reported as the property's zoning
\* code, and in a Miami-Dade lookup the unincorporated-area layer is then
\* queried and its answer used, that layer being queried only in that case.
C20_NoneIsNotFound ==
    p_pc = "done" =>
        /\ Upper(p_zoning.code) # <<"N", "O", "N", "E">>
        /\ Strip(p_zoning.code) = p_zoning.code
        /\ (p_county = "Miami-Dade" /\ p_answers # <<>>) =>
              /\ Len(p_queried) = (IF NoZoneFound(p_answers[1]) THEN 2 ELSE 1)
              /\ p_zoning = _spatial_query_zoning(p_answers[Len(p_answers)])

\* ------------------------------------------------------------------------
\* Claims C21 - C30
\* ------------------------------------------------------------------------

EvaluationOrder ==
    <<"density", "min_lot_area", "floor_area_ratio", "buildable_envelope">>

\* The constraints of the returned analysis that share its minimum.
Minimal ==
    {i \in DOMAIN c_out.constraints :
        \A j \in DOMAIN c_out.constraints :
            c_out.constraints[i].max_units <= c_out.constraints[j].max_units}

\* C22: when two or more evaluated constraints share the minimum max_units,
\* the governing constraint is the one of them that comes first in the
\* evaluation order density, min_lot_area, floor_area_ratio,
\* buildable_envelope.
C22_FirstInEvaluationOrder ==
    (c_pc = "returned" /\ Cardinality(Minimal) >= 2) =>
        /\ \E i \in Minimal :
              /\ c_out.constraints[i].is_governing
              /\ c_out.governing_constraint = c_out.constraints[i].name
        /\ \A i \in Minimal :
              Position(EvaluationOrder, c_out.governing_constraint)
                  <= Position(EvaluationOrder, c_out.constraints[i].name)

C22_Witness ==
    /\ c_pc = "returned"
    /\ Cardinality(Minimal) >= 2
    /\ c_out.governing_constraint = "min_lot_area"
    /\ \E i \in Minimal : c_out.constraints[i].name = "buildable_envelope"

\* Server row positions asked for by page request number k.
RequestedPositions(k) ==
    b_requests[k].resultOffset
        .. (b_requests[k].resultOffset + b_requests[k].resultRecordCount - 1)

\* Server row positions handed over by the answer to page request number k.
ReturnedPositions(k) ==
    b_requests[k].resultOffset .. (b_requests[k].resultOffset + b_pages[k] - 1)

\* C23: the page requests of one bulk search are strictly sequential and
\* contiguous: a request is issued only after every earlier one has been
\* answered, its offset is the total number of rows returned by all earlier
\* pages, no server row position is requested twice, and no position below
\* the offset of a request was left out of the earlier pages.
C23_SequentialContiguous ==
    /\ Len(b_requests) <= Len(b_pages) + 1
    /\ b_pc = "await" => Len(b_requests) = Len(b_pages) + 1
    /\ \A k \in DOMAIN b_requests :
          /\ k - 1 <= Len(b_pages)
          /\ b_requests[k].resultOffset = SumSeq(SubSeq(b_pages, 1, k - 1))
          /\ \A j \in 1..(k - 1) :
                RequestedPositions(j) \cap RequestedPositions(k) = {}
          /\ 0..(b_requests[k].resultOffset - 1)
                = UNION {ReturnedPositions(j) : j \in 1..(k - 1)}

C23_Witness ==
    /\ b_pc = "done"
    /\ Len(b_requests) = 2
    /\ Len(b_pages) = 2
    /\ b_requests[2].resultOffset = PageSize
    /\ b_pages[2] > 0

\* Last access of session sid among items.
LastAccess(items, sid) ==
    items[CHOOSE i \in DOMAIN items : items[i].sid = sid].ts

Tracked == Keys(_sessions.last_access)

\* Sessions that the last touch removed, and those of them that had expired.
Removed == Keys(t_op) \ Tracked

RemovedExpired ==
    {sid \in Removed : now - LastAccess(t_op, sid) > SESSION_TTL_SECONDS}

\* C24: after every SessionStore.touch the store tracks at most max_sessions
\* sessions and none whose last access is older than the TTL; and a session
\* removed because the capacity was exceeded had the oldest last access of
\* the sessions tracked at that moment: no session that stayed was accessed
\* earlier, and nothing is removed for capacity unless it was exceeded.
C24_BoundedAndFresh ==
    t_op # NoTouch =>
        /\ Cardinality(Tracked) <= MAX_SESSIONS
        /\ Len(_sessions.last_access) = Cardinality(Tracked)
        /\ \A i \in DOMAIN _sessions.last_access :
              ~(now - _sessions.last_access[i].ts > SESSION_TTL_SECONDS)
        /\ \A sid \in Removed \ RemovedExpired :
              /\ Len(t_op) - Cardinality(RemovedExpired) > MAX_SESSIONS
              /\ \A other \in Tracked :
                    LastAccess(t_op, sid) <= LastAccess(t_op, other)

\* A touch that removed a session for capacity only, while a session with a
\* later last access, other than the one touched, stayed.
C24_Witness ==
    /\ t_op # NoTouch
    /\ RemovedExpired = {}
    /\ \E sid \in Removed, other \in Tracked :
          /\ LastAccess(t_op, sid) < LastAccess(t_op, other)
          /\ other # t_op[Len(t_op)].sid

\* A touch that removed an expired session.
C24_WitnessExpired ==
    /\ t_op # NoTouch
    /\ RemovedExpired # {}

\* C25: every session id that has an entry in the conversation, dataset,
\* geocode or token map of the store is also tracked in the last-access map.
C25_EntriesAreTracked ==
    (_sessions.conversations \cup _sessions.datasets
        \cup _sessions.geocode \cup _sessions.tokens) \subseteq Tracked

\* Requests that are between reading or building a dataset and storing it.
Mutating == {r \in Requests : h_req[r].pc \in {"filtering", "storing"}}

\* C21: for the one session id of the requests, at most one mutation of the
\* stored dataset is in progress at any time, whatever the interleaving of
\* concurrent requests that run search_properties or filter_dataset: the
\* request that mutates is the task the event loop is running, and a
\* filter_dataset in progress still sees the dataset it has read.
C21_OneMutationAtATime ==
    /\ Cardinality(Mutating) <= 1
    /\ \A r \in Mutating :
          /\ loop_task = r
          /\ h_req[r].pc = "filtering" => h_req[r].records = h_dataset

\* A filter_dataset in progress while another request of the session has a
\* property search in flight.
C21_Witness ==
    \E r1, r2 \in Requests :
        /\ h_req[r1].pc = "filtering"
        /\ h_req[r2].pc = "searching"

Running == {r \in Requests : h_req[r].pc \notin {"idle", "finished"}}

\* C26: once every chat request has finished, the stored conversation memory
\* of the session holds at most MAX_MEMORY_MESSAGES messages, whichever way
\* the requests ended.
C26_MemoryBounded ==
    (Running = {} /\ \E r \in Requests : h_req[r].pc = "finished") =>
        memory <= MAX_MEMORY_MESSAGES

\* C27: a chat request makes at most MAX_AGENT_TURNS tool-enabled LLM calls,
\* then at most one call without tools, and that one only after
\* MAX_AGENT_TURNS tool-enabled calls; and when its event stream has ended,
\* the last event is done or error.
C27_BoundedTurns ==
    \A r \in Requests :
        /\ h_req[r].turns <= MAX_AGENT_TURNS
        /\ h_req[r].finals <= 1
        /\ h_req[r].finals = 1 => h_req[r].turns = MAX_AGENT_TURNS
        /\ h_req[r].pc = "finished" => h_req[r].event \in {"done", "error"}
        /\ h_req[r].event \in {"done", "error"} => h_req[r].pc = "finished"

\* A request whose LLM asked for a tool on every turn and that ended with the
\* forced final answer.
C27_Witness ==
    \E r \in Requests :
        /\ h_req[r].pc = "finished"
        /\ h_req[r].turns = MAX_AGENT_TURNS
        /\ h_req[r].finals = 1
        /\ h_req[r].event = "done"


\* The entries of l_log: what the last step of a call did at the breakers.
LogEntries == {l_log[k] : k \in DOMAIN l_log}

\* C28: a breaker is away from closed only after failure_threshold failures
\* were recorded with no success in between; a call of _call_provider_raw
\* that finds the breaker open before reset_seconds have passed since the
\* last recorded failure sends nothing and returns None; and a recorded
\* success leaves the breaker closed with a failure count of 0.
C28_OpensAndCloses ==
    /\ \A p \in ProviderNames :
          _breakers[p].state # "closed" => l_streak[p] >= failure_threshold
    /\ \A e \in LogEntries :
          /\ (e.op \in {"send", "skip"} /\ e.state = "open" /\ e.elapsed < reset_seconds)
                => /\ e.op = "skip"
                   /\ \E c \in Calls :
                         /\ l_calls[c].pc = "None"
                         /\ l_calls[c].trail[Len(l_calls[c].trail)] = <<e.provider, "skipped">>
          /\ e.op = "skip" => (e.state = "open" /\ e.elapsed < reset_seconds)
          /\ e.op = "success"
                => /\ _breakers[e.provider].state = "closed"
                   /\ _breakers[e.provider].failure_count = 0

\* A call has just found the breaker open and returned None.
C28_Witness ==
    \E e \in LogEntries : e.op = "skip" /\ e.state = "open" /\ e.elapsed < reset_seconds

\* A success has just been recorded at a half-open breaker.
C28_WitnessRecovered ==
    \E e \in LogEntries : e.op = "success" /\ e.state = "half_open"

\* The calls with a POST in flight at provider p that entered
\* _call_provider_raw while the breaker was half-open.
TestRequests(p) ==
    {c \in Calls : /\ l_calls[c].pc = "post"
                   /\ l_calls[c].seen = "half_open"
                   /\ Providers(l_keys)[l_calls[c].i] = p}

\* C29: while a breaker is half-open at most one request is let through to
\* the provider before its outcome is recorded.
C29_OneTestRequest ==
    \A p \in ProviderNames : Cardinality(TestRequests(p)) <= 1

\* What became of the providers before the last one of a trail.
Passed(trail) ==
    \A k \in 1..(Len(trail) - 1) : trail[k][2] \in {"skipped", "failed", "empty"}

\* call_llm goes through the configured providers in their order, returns
\* the message of the first that gives one, and returns None only when all
\* of them have failed or been skipped.
FallbackOrder ==
    \A c \in Calls :
        LET call == l_calls[c]
            ps == Providers(l_keys)
            n == Len(call.trail)
        IN  /\ n <= Len(ps)
            /\ \A k \in 1..n : call.trail[k][1] = ps[k]
            /\ call.pc = "returned"
                  => /\ n > 0 /\ call.result = ps[n]
                     /\ call.trail[n][2] = "returned"
                     /\ Passed(call.trail)
            /\ call.pc = "None"
                  => /\ n = Len(ps)
                     /\ Passed(call.trail)
                     /\ n > 0 => call.trail[n][2] \in {"skipped", "failed", "empty"}

\* C30: call_llm tries the providers in order, returns the first message,
\* and returns None without raising whatever way the providers fail.
C30_FallbackNeverRaises ==
    /\ FallbackOrder
    /\ \A c \in Calls : l_calls[c].pc # "raised"

====
